---- MODULE Spec2Model ----
EXTENDS Integers, Sequences, FiniteSets, TLC

(***************************************************************************)
(* Model of the chart Store (src/src/Store.ts): the data window, the       *)
(* viewport (bar space, right offset, visible range), pagination through   *)
(* the load-more callback, and the indicator calculation tasks.            *)
(*                                                                         *)
(* Numbers.  The Store computes with IEEE doubles.  The model computes     *)
(* with exact fixed-point numbers: a bar count (lastBarRightSideDiff-      *)
(* BarCount, a float index) is an integer number of 1/Unit bars, and       *)
(* Unit = 3 * Precision, so that every quotient pixels / barSpace of the   *)
(* modelled bar spaces (the divisors 1, 3, 10, 50 of Unit) is exact and    *)
(* the rounding to 1e-6 of coordinateToFloatIndex really rounds (1/3 of a  *)
(* bar is not a multiple of 1e-6).  Pixels are integers.  Timestamps are   *)
(* seconds (the Store's are milliseconds).                                 *)
(***************************************************************************)

VARIABLES
  dataList,                          \* _dataList
  loadMoreDataCallback,              \* _loadMoreDataCallback is registered
  loading,                           \* _loading
  loadDataMore,                      \* _loadDataMore {forward, backward}
  dateTimeFormat,                    \* _dateTimeFormat: the zone offset, seconds
  zoomEnabled,                       \* _zoomEnabled
  scrollEnabled,                     \* _scrollEnabled
  totalBarSpace,                     \* _totalBarSpace, pixels
  barSpace,                          \* _barSpace, pixels
  gapBarSpace,                       \* _gapBarSpace, pixels
  offsetRightDistance,               \* _offsetRightDistance, pixels
  lastBarRightSideDiffBarCount,      \* _lastBarRightSideDiffBarCount, 1/Unit bars
  startLastBarRightSideDiffBarCount, \* _startLastBarRightSideDiffBarCount
  scrollLimitRole,                   \* _scrollLimitRole
  minVisibleBarCount,                \* _minVisibleBarCount {left, right}
  maxOffsetDistance,                 \* _maxOffsetDistance {left, right}
  visibleRange,                      \* _visibleRange
  cacheVisibleRange,                 \* _cacheVisibleRange
  timeTicks,                         \* _timeTicks: weight -> ticks
  visibleRangeDataList,              \* _visibleRangeDataList
  crosshair,                         \* _crosshair
  indicators,                        \* _indicators: pane -> indicator names
  tasks,                             \* _taskScheduler: the tasks not yet started
  running,                           \* calcImp promises not yet settled
  taskLog,                           \* history of the tasks: submissions, runs' notifications
  requests,                          \* load requests whose callback is not yet invoked
  visibleRangeTimeTickList,          \* _visibleRangeTimeTickList
  overlayObjects,                    \* the OverlayImp objects created, in order
  overlays,                          \* _overlays: pane -> overlays
  progressOverlayInfo,               \* _progressOverlayInfo
  hoverOverlayInfo,                  \* _hoverOverlayInfo
  clickOverlayInfo,                  \* _clickOverlayInfo
  callbackLog,                       \* the overlay callbacks fired so far, in order
  actions,                           \* _actions: type -> the callbacks of its Action
  subscribed,                        \* history: the (type, callback) pairs subscribed now, and ever
  taskCount,                         \* the tasks handed to the scheduler so far
  timezone,                          \* _options.timezone
  fx,                                \* what the last operation did (its calls out)
  steps                              \* number of operations so far

vars == <<dataList, loadMoreDataCallback, loading, loadDataMore, dateTimeFormat,
          zoomEnabled, scrollEnabled, totalBarSpace, barSpace, gapBarSpace,
          offsetRightDistance, lastBarRightSideDiffBarCount,
          startLastBarRightSideDiffBarCount, scrollLimitRole, minVisibleBarCount,
          maxOffsetDistance, visibleRange, cacheVisibleRange, timeTicks,
          visibleRangeDataList, crosshair, indicators, tasks, running, taskLog,
          requests, visibleRangeTimeTickList, overlayObjects, overlays,
          progressOverlayInfo, hoverOverlayInfo, clickOverlayInfo, callbackLog,
          actions, subscribed,
          taskCount,
          timezone, fx, steps>>

----------------------------------------------------------------------------
(* Program constants *)

BarSpaceLimitMIN == 1
BarSpaceLimitMAX == 50
DEFAULT_BAR_SPACE == 10
DEFAULT_OFFSET_RIGHT_DISTANCE == 80
SCALE_MULTIPLIER == 10
Precision == 1000000

TimeWeightYear == 365 * 24 * 3600
TimeWeightMonth == 30 * 24 * 3600
TimeWeightDay == 24 * 3600
TimeWeightHour == 3600
TimeWeightMinute == 60
TimeWeightSecond == 1
TimeWeights == {TimeWeightYear, TimeWeightMonth, TimeWeightDay, TimeWeightHour,
                TimeWeightMinute, TimeWeightSecond}

(* Bounds of the model *)

MaxSteps == 3      \* operations in one run
MaxData == 4       \* bars in the data window
MaxPage == 2       \* bars in one loaded array
MaxOverlaySteps == 4   \* operations on overlays in one run

----------------------------------------------------------------------------
(* Arithmetic on fixed-point numbers *)

Unit == 3 * Precision
Half == Unit \div 2

Min(a, b) == IF a < b THEN a ELSE b
Max(a, b) == IF a > b THEN a ELSE b

\* Array.includes, and a push of what the array does not include
Includes(list, e) == \E i \in 1..Len(list) : list[i] = e
PushNew(list, e) == IF Includes(list, e) THEN list ELSE Append(list, e)

\* Math.round(n / d), Math.floor(n / d), Math.ceil(n / d), d > 0
Round(n, d) == (2 * n + d) \div (2 * d)
Floor(n, d) == n \div d
Ceil(n, d) == -((-n) \div d)

\* Op(s) with s evaluated once: the steps of a method, one after the other
Then(s, Op(_)) == CHOOSE r \in {Op(v) : v \in {s}} : TRUE

None == <<>>
Some(v) == <<v>>
IsValid(o) == o # None

----------------------------------------------------------------------------
(* Dates: formatDateToDateTime of a timestamp in the formatter's zone *)

SecondsPerDay == 24 * 3600
MonthStart == <<0, 31, 59, 90, 120, 151, 181, 212, 243, 273, 304, 334, 365>>

MonthOf(dayOfYear) == CHOOSE m \in 1..12 :
  MonthStart[m] <= dayOfYear /\ dayOfYear < MonthStart[m + 1]

formatDateToDateTime(format, timestamp) ==
  LET t == timestamp + format
      day == t \div SecondsPerDay
      doy == day % 365
      m == MonthOf(doy)
  IN [YYYY |-> 1970 + day \div 365, MM |-> m, DD |-> doy - MonthStart[m] + 1,
      HH |-> (t % SecondsPerDay) \div 3600, mm |-> (t % 3600) \div 60,
      ss |-> t % 60]

\* The instant of a civil date of 1970 or 1971 (both have 365 days), UTC
At(year, month, day, h, m, s) ==
  ((year - 1970) * 365 + MonthStart[month] + day - 1) * SecondsPerDay
    + h * 3600 + m * 60 + s

\* The bars the host can supply, oldest first
Timeline == <<At(1970, 12, 31, 23, 58, 0), At(1970, 12, 31, 23, 59, 0),
              At(1971, 1, 1, 0, 0, 0), At(1971, 1, 1, 0, 0, 30),
              At(1971, 1, 1, 1, 0, 0), At(1971, 1, 2, 0, 0, 0),
              At(1971, 2, 1, 0, 0, 0), At(1971, 2, 1, 0, 1, 0)>>

Bar(timestamp, close) == [timestamp |-> timestamp, close |-> close]
Slice(a, b) == [i \in 1..(b - a + 1) |-> Bar(Timeline[a + i - 1], 1)]
PlaceOf(timestamp) == CHOOSE k \in 1..Len(Timeline) : Timeline[k] = timestamp

----------------------------------------------------------------------------
(* What an operation did besides changing the Store: the calls it made out *)

NoFx(op, arg) ==
  [op |-> op, arg |-> arg,
   layout |-> 0,            \* calls of _chart.layout
   submitted |-> <<>>,      \* _taskScheduler.addTask calls, in order
   afterAdjust |-> <<>>,    \* for each of them, whether _adjustVisibleRange had run
   request |-> "None",      \* the type the load-more callback was invoked with
   adjusted |-> FALSE,      \* _adjustVisibleRange ran
   loadingAtAdjust |-> FALSE,  \* _loading when its pagination test was made
   clamped |-> FALSE,       \* it clamped lastBarRightSideDiffBarCount
   events |-> <<>>,         \* executeAction calls other than the range change
   floatIndex |-> None,     \* zoom's anchor x and the float index under it
   success |-> FALSE,       \* addData's local variable success
   dataLengthChange |-> 0,  \* addData's local variable dataLengthChange
   added |-> FALSE,         \* addIndicator returned true
   removed |-> FALSE,       \* removeIndicator removed an indicator
   warned |-> FALSE,        \* logWarn was called
   pending |-> <<>>,        \* the tasks that waited for an indicator it removed
   callbacks |-> <<>>,      \* overlay callbacks fired, in order
   updatePane |-> <<>>,     \* _chart.updatePane calls: the pane of each
   returned |-> <<>>,       \* the value returned, where the model keeps it
   invoked |-> <<>>]        \* the subscribers' callbacks invoked, in order

Begin(s, op, arg) == [s EXCEPT !.fx = NoFx(op, arg)]

layout(s) == [s EXCEPT !.fx.layout = @ + 1]

getDefaultVisibleRange == [from |-> 0, to |-> 0, realFrom |-> 0, realTo |-> 0]

EmptyTicks == [w \in TimeWeights |-> <<>>]
\* lines 295-326: the slot of an overlay event as the constructor leaves it
NoOverlayInfo == [paneId |-> "", overlay |-> None, figureType |-> "None",
                  figureKey |-> "", figureIndex |-> -1, attrsIndex |-> -1]
EmptyCrosshair == [x |-> None, realX |-> None, kLineData |-> None,
                   realDataIndex |-> None, dataIndex |-> None]

\* this._dataList[i], i counted from 0; None is undefined
DataAt(list, i) == IF 0 <= i /\ i < Len(list) THEN Some(list[i + 1]) ELSE None

----------------------------------------------------------------------------
(* Coordinates *)

GapOf(b) ==
  CASE b = 1 -> 1 [] b = 3 -> 3 [] b = 10 -> 7 [] b = 50 -> 40

\* _calcOptimalBarSpace: the gap of the modelled bar spaces, as the formula
\* min(floor(b * (1 - 0.2 * atan(max(4, b) - 4) / (pi / 2))), floor(b)) gives it
calcOptimalBarSpace(s) == [s EXCEPT !.gapBarSpace = GapOf(s.barSpace)]

\* pixels / barSpace, in 1/Unit bars
PerBar(pixels, b) == (pixels * Unit) \div b

coordinateToFloatIndex(s, x) ==
  LET dataCount == Len(s.dataList)
      deltaFromRight == PerBar(s.totalBarSpace - x, s.barSpace)
      index == dataCount * Unit + s.lastBarRightSideDiffBarCount - deltaFromRight
  IN Round(index, Unit \div Precision) * (Unit \div Precision)

dataIndexToCoordinate(s, dataIndex) ==
  LET dataCount == Len(s.dataList)
      deltaFromRight == dataCount * Unit + s.lastBarRightSideDiffBarCount
                          - dataIndex * Unit
  IN Floor(s.totalBarSpace * Unit - (deltaFromRight - Half) * s.barSpace + Half, Unit)

coordinateToDataIndex(s, x) == Ceil(coordinateToFloatIndex(s, x), Unit) - 1

----------------------------------------------------------------------------
(* Time ticks *)

\* A faulty variant: the hour is compared before the day
WeightOfHourFirst(dateTime, prevDateTime) ==
  IF dateTime.YYYY # prevDateTime.YYYY THEN TimeWeightYear
  ELSE IF dateTime.MM # prevDateTime.MM THEN TimeWeightMonth
  ELSE IF dateTime.HH # prevDateTime.HH THEN TimeWeightHour
  ELSE IF dateTime.DD # prevDateTime.DD THEN TimeWeightDay
  ELSE IF dateTime.mm # prevDateTime.mm THEN TimeWeightMinute
  ELSE TimeWeightSecond

WeightOf(dateTime, prevDateTime) ==
  IF dateTime.YYYY # prevDateTime.YYYY THEN TimeWeightYear
  ELSE IF dateTime.MM # prevDateTime.MM THEN TimeWeightMonth
  ELSE IF dateTime.DD # prevDateTime.DD THEN TimeWeightDay
  ELSE IF dateTime.HH # prevDateTime.HH THEN TimeWeightHour
  ELSE IF dateTime.mm # prevDateTime.mm THEN TimeWeightMinute
  ELSE TimeWeightSecond

RECURSIVE ClassifyFrom(_, _, _, _, _, _)
ClassifyFrom(format, ticks, newDataList, i, baseDataIndex, prevKLineData) ==
  IF i > Len(newDataList) THEN ticks
  ELSE LET kLineData == newDataList[i]
           dateTime == formatDateToDateTime(format, kLineData.timestamp)
           weight == IF IsValid(prevKLineData)
                     THEN WeightOf(dateTime,
                            formatDateToDateTime(format, prevKLineData[1].timestamp))
                     ELSE TimeWeightSecond
           tick == [dataIndex |-> (i - 1) + baseDataIndex, weight |-> weight,
                    dateTime |-> dateTime, timestamp |-> kLineData.timestamp]
       IN ClassifyFrom(format, [ticks EXCEPT ![weight] = Append(@, tick)],
                       newDataList, i + 1, baseDataIndex, Some(kLineData))

\* A faulty variant: the buckets are not emptied before a classification of
\* the whole window
classifyTimeTicksUncleared(s, newDataList, isUpdate) ==
  LET baseDataIndex == IF isUpdate THEN Len(s.dataList) ELSE 0
      prevKLineData == IF isUpdate THEN DataAt(s.dataList, baseDataIndex - 1) ELSE None
  IN [s EXCEPT !.timeTicks = ClassifyFrom(s.dateTimeFormat, s.timeTicks, newDataList, 1,
                                          baseDataIndex, prevKLineData)]

classifyTimeTicks(s, newDataList, isUpdate) ==
  LET baseDataIndex == IF isUpdate THEN Len(s.dataList) ELSE 0
      prevKLineData == IF isUpdate THEN DataAt(s.dataList, baseDataIndex - 1) ELSE None
      ticks == IF isUpdate THEN s.timeTicks ELSE EmptyTicks
  IN [s EXCEPT !.timeTicks = ClassifyFrom(s.dateTimeFormat, ticks, newDataList, 1,
                                          baseDataIndex, prevKLineData)]

\* calcTextWidth('0000-00-00 00:00', size, weight, family) of common/utils/canvas:
\* the pixel width of a tick's text in the font of the styles, here a small font
TickTextWidth == 10

\* The keys of _timeTicks as line 559 sorts them; a weight without ticks adds nothing
WeightsDescending == <<TimeWeightYear, TimeWeightMonth, TimeWeightDay, TimeWeightHour,
                       TimeWeightMinute, TimeWeightSecond>>

\* lines 554-557
tickBarCount(s) ==
  Ceil(Max(Ceil(s.totalBarSpace, 10), TickTextWidth), s.barSpace)

\* lines 574-586: the marks of the greater weights left of the current tick are taken
\* over.  leftIndex and rightIndex are None where the code has -Infinity and Infinity.
RECURSIVE TakeMarks(_, _, _)
TakeMarks(prevTickList, currentIndex, m) ==
  IF m.pointer <= Len(prevTickList)
  THEN LET lastMark == prevTickList[m.pointer]
           lastIndex == lastMark.dataIndex
       IN IF lastIndex < currentIndex
          THEN TakeMarks(prevTickList, currentIndex,
                         [pointer |-> m.pointer + 1, tickList |-> Append(m.tickList, lastMark),
                          leftIndex |-> Some(lastIndex), rightIndex |-> None])
          ELSE [m EXCEPT !.rightIndex = Some(lastIndex)]
  ELSE m

\* lines 570-592, from the i-th tick of the weight on
RECURSIVE MergeTicks(_, _, _, _, _)
MergeTicks(prevTickList, currentTicks, barCount, i, m) ==
  IF i <= Len(currentTicks)
  THEN LET tick == currentTicks[i]
           currentIndex == tick.dataIndex
           t == TakeMarks(prevTickList, currentIndex, m)
           farRight == t.rightIndex = None \/ t.rightIndex[1] - currentIndex >= barCount
           farLeft == t.leftIndex = None \/ currentIndex - t.leftIndex[1] >= barCount
       IN MergeTicks(prevTickList, currentTicks, barCount, i + 1,
                     IF farRight /\ farLeft
                     THEN [t EXCEPT !.tickList = Append(@, tick),
                                    !.leftIndex = Some(currentIndex)]
                     ELSE t)
  ELSE m.tickList \o SubSeq(prevTickList, m.pointer, Len(prevTickList))

\* lines 559-597: weight after weight, the greatest first
RECURSIVE TicksOfWeights(_, _, _, _)
TicksOfWeights(ticks, barCount, k, tickList) ==
  IF k > Len(WeightsDescending) THEN tickList
  ELSE TicksOfWeights(ticks, barCount, k + 1,
         MergeTicks(tickList, ticks[WeightsDescending[k]], barCount, 1,
                    [pointer |-> 1, tickList |-> <<>>, leftIndex |-> None,
                     rightIndex |-> None]))

\* lines 551-605
adjustVisibleRangeTimeTickList(s) ==
  LET tickList == TicksOfWeights(s.timeTicks, tickBarCount(s), 1, <<>>)
  IN [s EXCEPT !.visibleRangeTimeTickList =
        SelectSeq(tickList, LAMBDA tick : /\ tick.dataIndex >= s.visibleRange.from
                                          /\ tick.dataIndex <= s.visibleRange.to)]

----------------------------------------------------------------------------
(* Options: the time zone.  new Intl.DateTimeFormat('en', {timeZone}) gives  *)
(* the formatter of a zone, here its offset from UTC in seconds, and throws  *)
(* a RangeError for a name that is no zone.                                  *)

\* 'auto' sets no timeZone option: the zone of the host, here UTC
Zones == {"auto", "Europe/Paris"}
ZoneOffset(zone) == IF zone = "Europe/Paris" THEN 3600 ELSE 0

\* The formatter of a zone name, or None where the constructor throws
DateTimeFormatOf(zone) ==
  IF zone \in Zones THEN Some(ZoneOffset(zone)) ELSE None

\* setOptions that falls back to the formatter of 'auto' for a name that is no zone
setOptionsFallback(s, options) ==
  LET changes == IsValid(options.timezone) /\ options.timezone[1] # s.timezone
      format == IF changes THEN DateTimeFormatOf(options.timezone[1]) ELSE None
      s1 == IF changes
            THEN [Then(classifyTimeTicks(s, s.dataList, FALSE),
                       adjustVisibleRangeTimeTickList)
                    EXCEPT !.dateTimeFormat = IF format # None
                                              THEN format[1] ELSE ZoneOffset("auto"),
                           !.fx.warned = (format = None)]
            ELSE s
  IN [s1 EXCEPT !.timezone = IF IsValid(options.timezone) THEN options.timezone[1] ELSE @]

\* lines 335-364; options is [timezone], None or Some.  _dateTimeFormat is
\* valid from the constructor's own call on (line 332).  merge (line 364) copies
\* the time zone's name into _options whether or not a formatter was made of it.
setOptions(s, options) ==
  LET changes == IsValid(options.timezone) /\ options.timezone[1] # s.timezone
      format == IF changes THEN DateTimeFormatOf(options.timezone[1]) ELSE None
      s1 == IF changes
            THEN IF format # None
                 THEN [Then(classifyTimeTicks(s, s.dataList, FALSE),
                            adjustVisibleRangeTimeTickList)
                         EXCEPT !.dateTimeFormat = format[1]]
                 ELSE [s EXCEPT !.fx.warned = TRUE]
            ELSE s
  IN [s1 EXCEPT !.timezone = IF IsValid(options.timezone) THEN options.timezone[1] ELSE @]

----------------------------------------------------------------------------
(* The indicator tasks.  TaskScheduler (common/TaskScheduler) keeps the     *)
(* tasks not yet started, one per id: a task added under an id that is      *)
(* still waiting replaces it.                                               *)

generateTaskId(paneId, name) == <<paneId, name>>

RECURSIVE ReplaceTask(_, _)
ReplaceTask(list, task) ==
  IF list = <<>> THEN <<>>
  ELSE <<IF Head(list).id = task.id THEN task ELSE Head(list)>>
         \o ReplaceTask(Tail(list), task)

addTask(list, task) ==
  IF \E i \in 1..Len(list) : list[i].id = task.id
  THEN ReplaceTask(list, task)
  ELSE Append(list, task)

removeTask(list, id) == SelectSeq(list, LAMBDA task : task.id # id)

addIndicatorCalcTask(s, paneId, name, loadDataType) ==
  LET task == [id |-> generateTaskId(paneId, name), type |-> loadDataType,
               n |-> s.taskCount + 1]
  IN [s EXCEPT !.tasks = addTask(@, task), !.fx.submitted = Append(@, task),
               !.fx.afterAdjust = Append(@, s.fx.adjusted),
               !.taskCount = @ + 1]

\* _indicators is a Map: its panes in insertion order, each with its indicators
RECURSIVE SubmitNames(_, _, _, _)
SubmitNames(s, paneId, names, loadDataType) ==
  IF names = <<>> THEN s
  ELSE SubmitNames(addIndicatorCalcTask(s, paneId, Head(names), loadDataType),
                   paneId, Tail(names), loadDataType)

RECURSIVE SubmitPanes(_, _, _)
SubmitPanes(s, filterMap, loadDataType) ==
  IF filterMap = <<>> THEN s
  ELSE SubmitPanes(SubmitNames(s, Head(filterMap).paneId, Head(filterMap).names,
                               loadDataType),
                   Tail(filterMap), loadDataType)

----------------------------------------------------------------------------
(* The viewport *)

\* A faulty variant: the left limit is read where the right limit is meant
leftMinVisibleBarCountOfLeft(s) ==
  Max(0, IF s.scrollLimitRole = "Distance"
         THEN PerBar(s.totalBarSpace - s.maxOffsetDistance.left, s.barSpace)
         ELSE s.minVisibleBarCount.left * Unit)

leftMinVisibleBarCount(s) ==
  Max(0, IF s.scrollLimitRole = "Distance"
         THEN PerBar(s.totalBarSpace - s.maxOffsetDistance.right, s.barSpace)
         ELSE s.minVisibleBarCount.left * Unit)

rightMinVisibleBarCount(s) ==
  Max(0, IF s.scrollLimitRole = "Distance"
         THEN PerBar(s.totalBarSpace - s.maxOffsetDistance.left, s.barSpace)
         ELSE s.minVisibleBarCount.right * Unit)

maxRightOffsetBarCount(s) ==
  PerBar(s.totalBarSpace, s.barSpace)
    - Min(leftMinVisibleBarCount(s), Len(s.dataList) * Unit)

minRightOffsetBarCount(s) ==
  -(Len(s.dataList) * Unit) + Min(rightMinVisibleBarCount(s), Len(s.dataList) * Unit)

\* A faulty variant: the lower limit is not applied
clampRightOffsetAbove(s) ==
  IF s.lastBarRightSideDiffBarCount > maxRightOffsetBarCount(s)
  THEN maxRightOffsetBarCount(s) ELSE s.lastBarRightSideDiffBarCount

\* lines 629-637: the two clamps, in the code's order
clampRightOffset(s) ==
  LET d1 == IF s.lastBarRightSideDiffBarCount > maxRightOffsetBarCount(s)
            THEN maxRightOffsetBarCount(s) ELSE s.lastBarRightSideDiffBarCount
  IN IF d1 < minRightOffsetBarCount(s) THEN minRightOffsetBarCount(s) ELSE d1

\* A faulty variant: the end of the range is not held to the data count
deriveVisibleRangeUnheld(s) ==
  LET totalBarCount == Len(s.dataList)
      visibleBarCount == PerBar(s.totalBarSpace, s.barSpace)
      realTo == Round(s.lastBarRightSideDiffBarCount + totalBarCount * Unit + Half, Unit)
      from0 == Round(realTo * Unit - visibleBarCount, Unit) - 1
      from == IF from0 < 0 THEN 0 ELSE from0
  IN [from |-> from, to |-> realTo, realFrom |-> from, realTo |-> realTo]

\* lines 639-649
deriveVisibleRange(s) ==
  LET totalBarCount == Len(s.dataList)
      visibleBarCount == PerBar(s.totalBarSpace, s.barSpace)
      realTo == Round(s.lastBarRightSideDiffBarCount + totalBarCount * Unit + Half, Unit)
      to == IF realTo > totalBarCount THEN totalBarCount ELSE realTo
      from0 == Round(to * Unit - visibleBarCount, Unit) - 1
      from == IF from0 < 0 THEN 0 ELSE from0
      realFrom == IF s.lastBarRightSideDiffBarCount > 0
                  THEN Round(totalBarCount * Unit + s.lastBarRightSideDiffBarCount
                               - visibleBarCount, Unit) - 1
                  ELSE from
  IN [from |-> from, to |-> to, realFrom |-> realFrom, realTo |-> realTo]

\* lines 651-674, without the high and low prices
deriveVisibleRangeDataList(s) ==
  LET realFrom == s.visibleRange.realFrom
      realTo == s.visibleRange.realTo
  IN [k \in 1..Max(0, realTo - realFrom) |->
        [dataIndex |-> realFrom + k - 1,
         x |-> dataIndexToCoordinate(s, realFrom + k - 1),
         data |-> DataAt(s.dataList, realFrom + k - 1)]]

requestLoad(s, type) ==
  [s EXCEPT !.loading = TRUE, !.requests = Append(@, type), !.fx.request = type]

\* A faulty variant: a page is requested while another load is under way
loadMoreWhileLoading(s) ==
  IF s.loadMoreDataCallback
  THEN IF s.visibleRange.from = 0
       THEN IF s.loadDataMore.forward THEN requestLoad(s, "Forward") ELSE s
       ELSE IF s.visibleRange.to = Len(s.dataList)
            THEN IF s.loadDataMore.backward THEN requestLoad(s, "Backward") ELSE s
            ELSE s
  ELSE s

\* lines 682-711
loadMore(s) ==
  IF ~s.loading /\ s.loadMoreDataCallback
  THEN IF s.visibleRange.from = 0
       THEN IF s.loadDataMore.forward THEN requestLoad(s, "Forward") ELSE s
       ELSE IF s.visibleRange.to = Len(s.dataList)
            THEN IF s.loadDataMore.backward THEN requestLoad(s, "Backward") ELSE s
            ELSE s
  ELSE s

(* The action bus.  Action (common/Action) keeps the callbacks subscribed to  *)
(* one type, in the order of their subscription.                            *)

HasAction(map, type) == \E i \in 1..Len(map) : map[i].type = type

\* this._actions.get(type): the callbacks of the Action, None for undefined
ActionOf(s, type) ==
  IF HasAction(s.actions, type)
  THEN Some((CHOOSE e \in {s.actions[i] : i \in 1..Len(s.actions)} :
               e.type = type).callbacks)
  ELSE None

ActionSet(map, type, callbacks) ==
  IF HasAction(map, type)
  THEN [i \in 1..Len(map) |->
          IF map[i].type = type THEN [type |-> type, callbacks |-> callbacks]
          ELSE map[i]]
  ELSE Append(map, [type |-> type, callbacks |-> callbacks])

ActionDelete(map, type) == SelectSeq(map, LAMBDA e : e.type # type)

\* Action.subscribe, Action.unsubscribe (callback None: all), Action.isEmpty
subscribe(callbacks, callback) ==
  IF Includes(callbacks, callback) THEN callbacks ELSE Append(callbacks, callback)
unsubscribe(callbacks, callback) ==
  IF IsValid(callback) THEN SelectSeq(callbacks, LAMBDA c : c # callback[1]) ELSE <<>>
isEmpty(callbacks) == callbacks = <<>>

\* lines 960-962; Action.execute calls the callbacks in order
executeAction(s, type, data) ==
  LET action == ActionOf(s, type)
      callbacks == IF IsValid(action) THEN action[1] ELSE <<>>
  IN [s EXCEPT !.fx.events = Append(@, [type |-> type, data |-> data]),
               !.fx.invoked = @ \o [k \in 1..Len(callbacks) |->
                                      [type |-> type, callback |-> callbacks[k]]]]

\* lines 964-969
subscribeAction(s, type, callback) ==
  LET s1 == IF ~HasAction(s.actions, type)
            THEN [s EXCEPT !.actions = ActionSet(@, type, <<>>)] ELSE s
  IN [s1 EXCEPT !.actions = ActionSet(@, type, subscribe(ActionOf(s1, type)[1], callback))]

\* A faulty variant: the Action of a type is kept when its last subscriber goes
unsubscribeActionKeep(s, type, callback) ==
  LET action == ActionOf(s, type)
  IN IF IsValid(action)
     THEN [s EXCEPT !.actions = ActionSet(@, type, unsubscribe(action[1], callback))]
     ELSE s

\* lines 971-979
unsubscribeAction(s, type, callback) ==
  LET action == ActionOf(s, type)
  IN IF IsValid(action)
     THEN LET s1 == [s EXCEPT !.actions =
                       ActionSet(@, type, unsubscribe(action[1], callback))]
          IN IF isEmpty(ActionOf(s1, type)[1])
             THEN [s1 EXCEPT !.actions = ActionDelete(@, type)]
             ELSE s1
     ELSE s

\* lines 981-984
hasAction(s, type) ==
  LET action == ActionOf(s, type)
  IN IsValid(action) /\ ~isEmpty(action[1])

\* lines 629-637
clampStep(s) ==
  [s EXCEPT !.lastBarRightSideDiffBarCount = clampRightOffset(s),
            !.fx.clamped = @ \/ clampRightOffset(s) # s.lastBarRightSideDiffBarCount]

\* lines 639-650: the subscribers of the range change are called; the call is
\* not among fx.events
rangeStep(s) ==
  LET s1 == [s EXCEPT !.visibleRange = deriveVisibleRange(s)]
  IN [s1 EXCEPT !.fx.invoked =
        executeAction(s1, "onVisibleRangeChange", s1.visibleRange).fx.invoked]

listStep(s) == [s EXCEPT !.visibleRangeDataList = deriveVisibleRangeDataList(s)]

\* lines 675-681
cacheStep(s) ==
  IF s.cacheVisibleRange.from # s.visibleRange.from
     \/ s.cacheVisibleRange.to # s.visibleRange.to
  THEN adjustVisibleRangeTimeTickList([s EXCEPT !.cacheVisibleRange = s.visibleRange])
  ELSE s

loadMoreStep(s) ==
  loadMore([s EXCEPT !.fx.adjusted = TRUE, !.fx.loadingAtAdjust = s.loading])

adjustVisibleRange(s) ==
  Then(Then(Then(Then(Then(s, clampStep), rangeStep), listStep), cacheStep), loadMoreStep)

\* setCrosshair: cr is the object given; its y and paneId are not modelled
setCrosshair(s, cr, notInvalidate) ==
  LET n == Len(s.dataList)
      realDataIndex == IF IsValid(cr.x) THEN coordinateToDataIndex(s, cr.x[1])
                       ELSE n - 1
      dataIndex == IF IsValid(cr.x)
                   THEN IF realDataIndex < 0 THEN 0
                        ELSE IF realDataIndex > n - 1 THEN n - 1
                        ELSE realDataIndex
                   ELSE realDataIndex
  IN [s EXCEPT !.crosshair =
        [x |-> cr.x, realX |-> Some(dataIndexToCoordinate(s, realDataIndex)),
         kLineData |-> DataAt(s.dataList, dataIndex),
         realDataIndex |-> Some(realDataIndex), dataIndex |-> Some(dataIndex)]]

\* this.setCrosshair(this._crosshair, true)
refreshCrosshair(s) == setCrosshair(s, s.crosshair, TRUE)

\* the tail of every method that changes the viewport
adjustAndRefresh(s) == Then(Then(s, adjustVisibleRange), refreshCrosshair)

\* A faulty variant: the current bar space is not refused
setBarSpaceAgain(s, newBarSpace, adjustBeforeFunc) ==
  IF newBarSpace < BarSpaceLimitMIN \/ newBarSpace > BarSpaceLimitMAX
  THEN s
  ELSE layout(Then(Then(calcOptimalBarSpace([s EXCEPT !.barSpace = newBarSpace]),
                        LAMBDA s1 :
                          IF IsValid(adjustBeforeFunc)
                          THEN [s1 EXCEPT !.lastBarRightSideDiffBarCount =
                                  @ + (adjustBeforeFunc[1].floatIndex
                                         - coordinateToFloatIndex(s1, adjustBeforeFunc[1].x))]
                          ELSE s1),
                   adjustAndRefresh))

\* A faulty variant: adjustBeforeFunc is not called
setBarSpaceUnanchored(s, newBarSpace, adjustBeforeFunc) ==
  IF newBarSpace < BarSpaceLimitMIN \/ newBarSpace > BarSpaceLimitMAX
     \/ s.barSpace = newBarSpace
  THEN s
  ELSE layout(Then(calcOptimalBarSpace([s EXCEPT !.barSpace = newBarSpace]),
                   adjustAndRefresh))

setBarSpace(s, newBarSpace, adjustBeforeFunc) ==
  IF newBarSpace < BarSpaceLimitMIN \/ newBarSpace > BarSpaceLimitMAX
     \/ s.barSpace = newBarSpace
  THEN s
  ELSE layout(Then(Then(calcOptimalBarSpace([s EXCEPT !.barSpace = newBarSpace]),
                        \* zoom's adjustBeforeFunc: the anchor x and the index that was under it
                        LAMBDA s1 :
                          IF IsValid(adjustBeforeFunc)
                          THEN [s1 EXCEPT !.lastBarRightSideDiffBarCount =
                                  @ + (adjustBeforeFunc[1].floatIndex
                                         - coordinateToFloatIndex(s1, adjustBeforeFunc[1].x))]
                          ELSE s1),
                   adjustAndRefresh))

setTotalBarSpace(s, totalSpace) ==
  IF s.totalBarSpace # totalSpace
  THEN adjustAndRefresh([s EXCEPT !.totalBarSpace = totalSpace])
  ELSE s

setOffsetRightDistance(s, distance, isUpdate) ==
  LET d == IF s.scrollLimitRole = "Distance"
           THEN Min(s.maxOffsetDistance.right, distance) ELSE distance
      s1 == [s EXCEPT !.offsetRightDistance = d,
                      !.lastBarRightSideDiffBarCount = PerBar(d, s.barSpace)]
  IN IF isUpdate
     THEN layout(adjustAndRefresh(s1))
     ELSE s1

setLastBarRightSideDiffBarCount(s, barCount) ==
  [s EXCEPT !.lastBarRightSideDiffBarCount = barCount]

setMaxOffsetLeftDistance(s, distance) ==
  [s EXCEPT !.scrollLimitRole = "Distance", !.maxOffsetDistance.left = distance]

setMaxOffsetRightDistance(s, distance) ==
  [s EXCEPT !.scrollLimitRole = "Distance", !.maxOffsetDistance.right = distance]

\* A faulty variant: the mode is not switched
setLeftMinVisibleBarCountKeepRole(s, barCount) ==
  [s EXCEPT !.minVisibleBarCount.left = barCount]

setLeftMinVisibleBarCount(s, barCount) ==
  [s EXCEPT !.scrollLimitRole = "BarCount", !.minVisibleBarCount.left = barCount]

setRightMinVisibleBarCount(s, barCount) ==
  [s EXCEPT !.scrollLimitRole = "BarCount", !.minVisibleBarCount.right = barCount]

startScroll(s) ==
  [s EXCEPT !.startLastBarRightSideDiffBarCount = s.lastBarRightSideDiffBarCount]

\* A faulty variant: the distance is taken from the current offset
scrollRelative(s, distance) ==
  IF ~s.scrollEnabled THEN s
  ELSE LET distanceBarCount == PerBar(distance, s.barSpace)
           prevLastBarRightSideDistance == s.lastBarRightSideDiffBarCount * s.barSpace
           realDistance(s2) == Round(prevLastBarRightSideDistance
                                       - s2.lastBarRightSideDiffBarCount * s2.barSpace, Unit)
       IN Then(layout(adjustAndRefresh(
                 [s EXCEPT !.lastBarRightSideDiffBarCount =
                    s.lastBarRightSideDiffBarCount - distanceBarCount])),
               LAMBDA s2 : IF realDistance(s2) # 0
                           THEN executeAction(s2, "onScroll", realDistance(s2))
                           ELSE s2)

\* A faulty variant: onScroll is notified of a distance of 0 too
scrollAlwaysNotifies(s, distance) ==
  IF ~s.scrollEnabled THEN s
  ELSE LET distanceBarCount == PerBar(distance, s.barSpace)
           prevLastBarRightSideDistance == s.lastBarRightSideDiffBarCount * s.barSpace
           realDistance(s2) == Round(prevLastBarRightSideDistance
                                       - s2.lastBarRightSideDiffBarCount * s2.barSpace, Unit)
       IN Then(layout(adjustAndRefresh(
                 [s EXCEPT !.lastBarRightSideDiffBarCount =
                    s.startLastBarRightSideDiffBarCount - distanceBarCount])),
               LAMBDA s2 : executeAction(s2, "onScroll", realDistance(s2)))

scroll(s, distance) ==
  IF ~s.scrollEnabled THEN s
  ELSE LET distanceBarCount == PerBar(distance, s.barSpace)
           prevLastBarRightSideDistance == s.lastBarRightSideDiffBarCount * s.barSpace
           realDistance(s2) == Round(prevLastBarRightSideDistance
                                       - s2.lastBarRightSideDiffBarCount * s2.barSpace, Unit)
       IN Then(layout(adjustAndRefresh(
                 [s EXCEPT !.lastBarRightSideDiffBarCount =
                    s.startLastBarRightSideDiffBarCount - distanceBarCount])),
               LAMBDA s2 : IF realDistance(s2) # 0
                           THEN executeAction(s2, "onScroll", realDistance(s2))
                           ELSE s2)

\* A faulty variant: the notification is not held back when the scale is 1
zoomAlwaysNotifies(s, scale, coordinate) ==
  IF ~s.zoomEnabled THEN s
  ELSE LET x == IF IsValid(coordinate) THEN coordinate[1]
                ELSE IF IsValid(s.crosshair.x) THEN s.crosshair.x[1]
                ELSE s.totalBarSpace \div 2
           floatIndex == coordinateToFloatIndex(s, x)
           prevBarSpace == s.barSpace
           newBarSpace == s.barSpace
                            + (scale[1] * s.barSpace) \div (scale[2] * SCALE_MULTIPLIER)
           anchor == Some([x |-> x, floatIndex |-> floatIndex])
       IN Then(setBarSpace([s EXCEPT !.fx.floatIndex = anchor], newBarSpace, anchor),
               LAMBDA s1 : executeAction(s1, "onZoom", <<s1.barSpace, prevBarSpace>>))

\* scale is the fraction <<numerator, denominator>>; coordinate is None or Some(x)
zoom(s, scale, coordinate) ==
  IF ~s.zoomEnabled THEN s
  ELSE LET x == IF IsValid(coordinate) THEN coordinate[1]
                ELSE IF IsValid(s.crosshair.x) THEN s.crosshair.x[1]
                ELSE s.totalBarSpace \div 2
           floatIndex == coordinateToFloatIndex(s, x)
           prevBarSpace == s.barSpace
           newBarSpace == s.barSpace
                            + (scale[1] * s.barSpace) \div (scale[2] * SCALE_MULTIPLIER)
           anchor == Some([x |-> x, floatIndex |-> floatIndex])
       IN Then(setBarSpace([s EXCEPT !.fx.floatIndex = anchor], newBarSpace, anchor),
               LAMBDA s1 : IF s1.barSpace # prevBarSpace
                           THEN executeAction(s1, "onZoom", <<s1.barSpace, prevBarSpace>>)
                           ELSE s1)

clear(s) ==
  [s EXCEPT !.loadDataMore = [forward |-> FALSE, backward |-> FALSE],
            !.loading = TRUE,
            !.dataList = <<>>,
            !.visibleRangeDataList = <<>>,
            !.visibleRange = getDefaultVisibleRange,
            !.cacheVisibleRange = getDefaultVisibleRange,
            !.timeTicks = EmptyTicks,
            !.crosshair = EmptyCrosshair]

setLoadMoreDataCallback(s) == [s EXCEPT !.loadMoreDataCallback = TRUE]

----------------------------------------------------------------------------
(* Indicators: _indicators as the sequence of its entries [paneId, names]   *)

HasPane(map, paneId) == \E i \in 1..Len(map) : map[i].paneId = paneId

getIndicatorsByPaneId(s, paneId) ==
  IF HasPane(s.indicators, paneId)
  THEN (CHOOSE e \in {s.indicators[i] : i \in 1..Len(s.indicators)} :
          e.paneId = paneId).names
  ELSE <<>>

\* Map.set: an existing key keeps its place
MapSet(map, paneId, names) ==
  IF HasPane(map, paneId)
  THEN [i \in 1..Len(map) |->
          IF map[i].paneId = paneId THEN [paneId |-> paneId, names |-> names]
          ELSE map[i]]
  ELSE Append(map, [paneId |-> paneId, names |-> names])

MapDelete(map, paneId) == SelectSeq(map, LAMBDA e : e.paneId # paneId)

\* filter is [paneId, name], each None or Some
getIndicatorsByFilter(s, filter) ==
  LET find(names) == SelectSeq(names, LAMBDA n : ~IsValid(filter.name) \/ n = filter.name[1])
  IN IF IsValid(filter.paneId)
     THEN <<[paneId |-> filter.paneId[1],
             names |-> find(getIndicatorsByPaneId(s, filter.paneId[1]))]>>
     ELSE IF IsValid(filter.name)
          THEN <<>>    \* lines 1073-1076 fill a second map, local to the branch
          ELSE [i \in 1..Len(s.indicators) |->
                  [paneId |-> s.indicators[i].paneId, names |-> find(s.indicators[i].names)]]

\* The waiting tasks of one id
TasksOf(list, id) == SelectSeq(list, LAMBDA task : task.id = id)

\* removeIndicator without line 1094's removeTask
RECURSIVE RemoveNamesKeepTask(_, _, _)
RemoveNamesKeepTask(s, paneId, names) ==
  IF names = <<>> THEN s
  ELSE LET paneIndicators == getIndicatorsByPaneId(s, paneId)
           name == Head(names)
       IN Then(IF \E i \in 1..Len(paneIndicators) : paneIndicators[i] = name
               THEN [s EXCEPT
                       !.indicators = MapSet(@, paneId,
                          SelectSeq(paneIndicators, LAMBDA n : n # name)),
                       !.fx.removed = TRUE,
                       !.fx.pending = @ \o TasksOf(s.tasks, generateTaskId(paneId, name))]
               ELSE s,
               LAMBDA s1 : RemoveNamesKeepTask(s1, paneId, Tail(names)))

RECURSIVE RemoveNames(_, _, _)
RemoveNames(s, paneId, names) ==
  IF names = <<>> THEN s
  ELSE LET paneIndicators == getIndicatorsByPaneId(s, paneId)
           name == Head(names)
       IN Then(IF \E i \in 1..Len(paneIndicators) : paneIndicators[i] = name
               THEN [s EXCEPT
                       !.tasks = removeTask(@, generateTaskId(paneId, name)),
                       !.indicators = MapSet(@, paneId,
                          SelectSeq(paneIndicators, LAMBDA n : n # name)),
                       !.fx.removed = TRUE,
                       !.fx.pending = @ \o TasksOf(s.tasks, generateTaskId(paneId, name))]
               ELSE s,
               LAMBDA s1 : RemoveNames(s1, paneId, Tail(names)))

RECURSIVE RemovePanes(_, _)
RemovePanes(s, filterMap) ==
  IF filterMap = <<>> THEN s
  ELSE LET paneId == Head(filterMap).paneId
       IN Then(Then(RemoveNames(s, paneId, Head(filterMap).names),
                    LAMBDA s1 : IF getIndicatorsByPaneId(s1, paneId) = <<>>
                                THEN [s1 EXCEPT !.indicators = MapDelete(@, paneId)]
                                ELSE s1),
               LAMBDA s2 : RemovePanes(s2, Tail(filterMap)))

removeIndicator(s, filter) == RemovePanes(s, getIndicatorsByFilter(s, filter))

\* lines 1106-1108
hasIndicators(s, paneId) == HasPane(s.indicators, paneId)

\* A faulty variant: a name the pane holds already is added again
addIndicatorAgain(s, name, paneId, isStack) ==
  LET paneIndicators == IF ~isStack THEN <<>> ELSE getIndicatorsByPaneId(s, paneId)
  IN Then(IF ~isStack
          THEN removeIndicator(s, [paneId |-> Some(paneId), name |-> None])
          ELSE s,
          LAMBDA s1 :
            addIndicatorCalcTask(
              [s1 EXCEPT !.indicators = MapSet(@, paneId, Append(paneIndicators, name)),
                         !.fx.added = TRUE],
              paneId, name, "Init"))

addIndicator(s, name, paneId, isStack) ==
  LET found == getIndicatorsByPaneId(s, paneId)
  IN IF \E i \in 1..Len(found) : found[i] = name
     THEN s
     ELSE LET paneIndicators == IF ~isStack THEN <<>> ELSE found
          IN Then(IF ~isStack
                  THEN removeIndicator(s, [paneId |-> Some(paneId), name |-> None])
                  ELSE s,
                  LAMBDA s1 :
                    addIndicatorCalcTask(
                      [s1 EXCEPT !.indicators = MapSet(@, paneId, Append(paneIndicators, name)),
                                 !.fx.added = TRUE],
                      paneId, name, "Init"))

----------------------------------------------------------------------------
(* The data window *)

\* A faulty variant: the right offset is left where the viewport was scrolled to
addDataInitScrolled(s, data, more) ==
  Then([clear(s) EXCEPT !.dataList = data,
                        !.loadDataMore.backward = more.forward,
                        !.loadDataMore.forward = more.forward],
       LAMBDA d : classifyTimeTicks(d, d.dataList, FALSE))

\* lines 417-426
addDataInit(s, data, more) ==
  Then(Then([clear(s) EXCEPT !.dataList = data,
                             !.loadDataMore.backward = more.forward,
                             !.loadDataMore.forward = more.forward],
            LAMBDA d : classifyTimeTicks(d, d.dataList, FALSE)),
       LAMBDA k : setOffsetRightDistance(k, k.offsetRightDistance, FALSE))

\* A faulty variant: both flags are taken from the hint
addDataBackwardBothFlags(s, data, more) ==
  [classifyTimeTicks(s, data, TRUE) EXCEPT !.dataList = @ \o data,
                                           !.loadDataMore.backward = more.backward,
                                           !.loadDataMore.forward = more.forward]

\* lines 427-433
addDataBackward(s, data, more) ==
  [classifyTimeTicks(s, data, TRUE) EXCEPT !.dataList = @ \o data,
                                           !.loadDataMore.backward = more.backward]

\* lines 434-439
addDataForward(s, data, more) ==
  Then([s EXCEPT !.dataList = data \o @, !.loadDataMore.forward = more.forward],
       LAMBDA d : classifyTimeTicks(d, d.dataList, FALSE))

\* lines 414-442: what the array branch leaves in its local variables
addDataArray(s, data, type, more) ==
  [s |-> [(CASE type = "Init" -> addDataInit(s, data, more)
             [] type = "Backward" -> addDataBackward(s, data, more)
             [] type = "Forward" -> addDataForward(s, data, more)
             [] OTHER -> s) EXCEPT !.loading = FALSE],
   success |-> TRUE,
   adjustFlag |-> (type = "Init") \/ (type \in {"Backward", "Forward"} /\ Len(data) > 0),
   dataLengthChange |-> Len(data)]

\* A faulty variant: a bar of the last bar's timestamp is pushed, not put in its place
addDataSinglePush(s, data) ==
  LET dataCount == Len(s.dataList)
      lastDataTimestamp == IF dataCount > 0 THEN s.dataList[dataCount].timestamp ELSE 0
  IN IF data.timestamp >= lastDataTimestamp
     THEN [s |-> [classifyTimeTicks(s, <<data>>, TRUE) EXCEPT !.dataList = Append(@, data)],
           success |-> TRUE, adjustFlag |-> TRUE, dataLengthChange |-> 1]
     ELSE [s |-> s, success |-> FALSE, adjustFlag |-> FALSE, dataLengthChange |-> 0]

\* A faulty variant: an older bar is refused, but reported as a success
addDataSingleRefresh(s, data) ==
  LET dataCount == Len(s.dataList)
      lastDataTimestamp == IF dataCount > 0 THEN s.dataList[dataCount].timestamp ELSE 0
  IN IF data.timestamp > lastDataTimestamp
     THEN [s |-> [classifyTimeTicks(s, <<data>>, TRUE) EXCEPT !.dataList = Append(@, data)],
           success |-> TRUE, adjustFlag |-> TRUE, dataLengthChange |-> 1]
     ELSE IF data.timestamp = lastDataTimestamp /\ dataCount > 0
          THEN [s |-> [s EXCEPT !.dataList[dataCount] = data], success |-> TRUE,
                adjustFlag |-> TRUE, dataLengthChange |-> 0]
          ELSE [s |-> s, success |-> TRUE, adjustFlag |-> TRUE, dataLengthChange |-> 0]

\* A faulty variant: a negative right offset is not moved
addDataSingleUnshifted(s, data) ==
  LET dataCount == Len(s.dataList)
      timestamp == data.timestamp
      lastDataTimestamp == IF dataCount > 0 THEN s.dataList[dataCount].timestamp ELSE 0
  IN IF timestamp > lastDataTimestamp
     THEN [s |-> [classifyTimeTicks(s, <<data>>, TRUE) EXCEPT !.dataList = Append(@, data)],
           success |-> TRUE, adjustFlag |-> TRUE, dataLengthChange |-> 1]
     ELSE IF timestamp = lastDataTimestamp /\ dataCount > 0
          THEN [s |-> [s EXCEPT !.dataList[dataCount] = data], success |-> TRUE,
                adjustFlag |-> TRUE, dataLengthChange |-> 0]
          ELSE [s |-> s, success |-> FALSE, adjustFlag |-> FALSE, dataLengthChange |-> 0]

\* lines 443-463; the window of the model never holds a bar of timestamp 0
addDataSingle(s, data) ==
  LET dataCount == Len(s.dataList)
      timestamp == data.timestamp
      lastDataTimestamp == IF dataCount > 0 THEN s.dataList[dataCount].timestamp ELSE 0
  IN IF timestamp > lastDataTimestamp
     THEN [s |-> Then([classifyTimeTicks(s, <<data>>, TRUE) EXCEPT !.dataList = Append(@, data)],
                      LAMBDA p : IF p.lastBarRightSideDiffBarCount < 0
                                 THEN setLastBarRightSideDiffBarCount(p,
                                        p.lastBarRightSideDiffBarCount - Unit)
                                 ELSE p),
           success |-> TRUE, adjustFlag |-> TRUE, dataLengthChange |-> 1]
     ELSE IF timestamp = lastDataTimestamp /\ dataCount > 0
          THEN [s |-> [s EXCEPT !.dataList[dataCount] = data], success |-> TRUE,
                adjustFlag |-> TRUE, dataLengthChange |-> 0]
          ELSE [s |-> s, success |-> FALSE, adjustFlag |-> FALSE, dataLengthChange |-> 0]

\* A faulty variant: only the indicators of the candle pane are resubmitted
submitCandlePaneIndicators(s, type) ==
  SubmitPanes(s, getIndicatorsByFilter(s, [paneId |-> Some("candle_pane"), name |-> None]), type)

\* lines 482-496
submitAllIndicators(s, type) ==
  SubmitPanes(s, getIndicatorsByFilter(s, [paneId |-> None, name |-> None]), type)

\* lines 469-478: a point is [dataIndex, timestamp], each None or Some
resolvePoint(s, point, type, dataLengthChange) ==
  IF ~IsValid(point.timestamp) /\ IsValid(point.dataIndex)
  THEN LET dataIndex == IF type = "Forward" THEN point.dataIndex[1] + dataLengthChange
                        ELSE point.dataIndex[1]
           data == DataAt(s.dataList, dataIndex)
       IN [dataIndex |-> Some(dataIndex),
           timestamp |-> IF IsValid(data) THEN Some(data[1].timestamp) ELSE None]
  ELSE point

\* A faulty variant: the index is moved by a page of any kind
resolvePointsShifted(s, type, dataLengthChange) ==
  LET held == UNION {{s.overlays[i].overlays[k] : k \in 1..Len(s.overlays[i].overlays)} :
                       i \in 1..Len(s.overlays)}
  IN [s EXCEPT !.overlayObjects =
        [o \in 1..Len(s.overlayObjects) |->
           IF o \in held
           THEN [s.overlayObjects[o] EXCEPT !.points =
                   [k \in 1..Len(s.overlayObjects[o].points) |->
                      resolvePoint(s, s.overlayObjects[o].points[k], "Forward",
                                   dataLengthChange)]]
           ELSE s.overlayObjects[o]]]

\* lines 464-481: the points of the overlays of the panes; the overlay in
\* progress is not among them
resolvePoints(s, type, dataLengthChange) ==
  LET held == UNION {{s.overlays[i].overlays[k] : k \in 1..Len(s.overlays[i].overlays)} :
                       i \in 1..Len(s.overlays)}
  IN [s EXCEPT !.overlayObjects =
        [o \in 1..Len(s.overlayObjects) |->
           IF o \in held
           THEN [s.overlayObjects[o] EXCEPT !.points =
                   [k \in 1..Len(s.overlayObjects[o].points) |->
                      resolvePoint(s, s.overlayObjects[o].points[k], type,
                                   dataLengthChange)]]
           ELSE s.overlayObjects[o]]]

\* data is a sequence of bars when isArray, and one bar otherwise
addData(s, data, isArray, type, more) ==
  Then(IF isArray THEN addDataArray(s, data, type, more) ELSE addDataSingle(s, data),
       LAMBDA r :
         LET s1 == IF r.success /\ r.dataLengthChange > 0
                   THEN resolvePoints(r.s, type, r.dataLengthChange) ELSE r.s
         IN IF r.success /\ r.adjustFlag
            THEN layout(Then(adjustAndRefresh(
                               [s1 EXCEPT !.fx.success = r.success,
                                          !.fx.dataLengthChange = r.dataLengthChange]),
                             LAMBDA s2 : submitAllIndicators(s2, type)))
            ELSE [s1 EXCEPT !.fx.success = r.success,
                            !.fx.dataLengthChange = r.dataLengthChange])

----------------------------------------------------------------------------
(* Overlays.  OverlayImp (component/Overlay) is the overlay object: its id,  *)
(* groupId, name, paneId and zLevel as override(create) sets them, its       *)
(* drawing step (isStart() in the first step, isDrawing() until the last),   *)
(* and the callbacks the host gave it.  An overlay of the model is the place *)
(* of its object in overlayObjects, so two overlays of one id stay two.      *)

OverlayOf(s, o) == s.overlayObjects[o]
isDrawing(s, o) == OverlayOf(s, o).currentStep # "finished"
isStart(s, o) == OverlayOf(s, o).currentStep = "start"

\* overlay?.id of a slot's overlay, None for undefined
IdOf(s, overlay) == IF IsValid(overlay) THEN Some(OverlayOf(s, overlay[1]).id) ELSE None

\* createId(OVERLAY_ID_PREFIX): an id no overlay was given before
createId(s) == <<"overlay_1", "overlay_2", "overlay_3", "overlay_4">>[Len(s.overlayObjects) + 1]

\* getOverlayInnerClass(name): the registered overlay classes
OverlayNames == {"segment"}

\* A callback of an overlay is called, if the overlay has callbacks
fire(s, event, o) ==
  IF OverlayOf(s, o).callbacks
  THEN [s EXCEPT !.fx.callbacks = Append(@, [event |-> event, overlay |-> o]),
                 !.callbackLog = Append(@, [event |-> event, overlay |-> o])]
  ELSE s

updatePane(s, paneId) == [s EXCEPT !.fx.updatePane = Append(@, paneId)]

RECURSIVE updatePanes(_, _)
updatePanes(s, paneIds) ==
  IF paneIds = <<>> THEN s
  ELSE updatePanes(updatePane(s, Head(paneIds)), Tail(paneIds))

HasOverlays(map, paneId) == \E i \in 1..Len(map) : map[i].paneId = paneId

\* this._overlays.get(paneId) ?? []
getOverlaysByPaneId(s, paneId) ==
  IF HasOverlays(s.overlays, paneId)
  THEN (CHOOSE e \in {s.overlays[i] : i \in 1..Len(s.overlays)} :
          e.paneId = paneId).overlays
  ELSE <<>>

\* Map.set: an existing key keeps its place
OverlaysSet(map, paneId, list) ==
  IF HasOverlays(map, paneId)
  THEN [i \in 1..Len(map) |->
          IF map[i].paneId = paneId THEN [paneId |-> paneId, overlays |-> list]
          ELSE map[i]]
  ELSE Append(map, [paneId |-> paneId, overlays |-> list])

OverlaysDelete(map, paneId) == SelectSeq(map, LAMBDA e : e.paneId # paneId)

\* Array.prototype.sort by zLevel: stable
RECURSIVE SortByZLevel(_, _)
SortByZLevel(objects, list) ==
  IF list = <<>> THEN <<>>
  ELSE LET rest == SortByZLevel(objects, SubSeq(list, 1, Len(list) - 1))
           o == list[Len(list)]
           before == SelectSeq(rest, LAMBDA p : objects[p].zLevel <= objects[o].zLevel)
           after == SelectSeq(rest, LAMBDA p : objects[p].zLevel > objects[o].zLevel)
       IN before \o <<o>> \o after

\* _sortOverlays(paneId): one pane, or every pane when paneId is None
sortOverlays(s, paneId) ==
  [s EXCEPT !.overlays =
     [i \in 1..Len(s.overlays) |->
        IF ~IsValid(paneId) \/ s.overlays[i].paneId = paneId[1]
        THEN [s.overlays[i] EXCEPT !.overlays = SortByZLevel(s.overlayObjects, @)]
        ELSE s.overlays[i]]]

\* lines 1230-1271 for one create of the array; create is [name, id, paneId,
\* zLevel, currentStep, callbacks], id None or Some
addOverlay(s, create, appointPaneFlag, r) ==
  LET found == /\ IsValid(create.id)
               /\ \E i \in 1..Len(s.overlays) :
                    \E k \in 1..Len(s.overlays[i].overlays) :
                      OverlayOf(s, s.overlays[i].overlays[k]).id = create.id[1]
  IN IF found THEN [r EXCEPT !.ids = Append(@, create.id)]
     ELSE IF create.name \notin OverlayNames THEN [r EXCEPT !.ids = Append(@, None)]
     ELSE LET id == IF IsValid(create.id) THEN create.id[1] ELSE createId(s)
              object == [id |-> id, groupId |-> id, name |-> create.name,
                         paneId |-> create.paneId, zLevel |-> create.zLevel,
                         currentStep |-> create.currentStep,
                         callbacks |-> create.callbacks, points |-> create.points]
              overlay == Len(s.overlayObjects) + 1
              paneId == create.paneId
              s1 == [s EXCEPT !.overlayObjects = Append(@, object)]
              s2 == IF isDrawing(s1, overlay)
                    THEN [s1 EXCEPT !.progressOverlayInfo =
                            Some([paneId |-> paneId, overlay |-> overlay,
                                  appointPaneFlag |-> appointPaneFlag])]
                    ELSE [s1 EXCEPT !.overlays =
                            OverlaysSet(@, paneId,
                                        Append(getOverlaysByPaneId(s1, paneId), overlay))]
              s3 == IF isStart(s2, overlay) THEN fire(s2, "onDrawStart", overlay) ELSE s2
          IN [s |-> s3, ids |-> Append(r.ids, Some(id)),
              updatePaneIds |-> PushNew(r.updatePaneIds, paneId)]

RECURSIVE addOverlaysFrom(_, _, _, _)
addOverlaysFrom(os, appointPaneFlags, k, r) ==
  IF k > Len(os) THEN r
  ELSE addOverlaysFrom(os, appointPaneFlags, k + 1,
         Then(r, LAMBDA q : addOverlay(q.s, os[k], appointPaneFlags[k], q)))

\* lines 1228-1280
addOverlays(s, os, appointPaneFlags) ==
  Then(addOverlaysFrom(os, appointPaneFlags, 1,
                       [s |-> s, ids |-> <<>>, updatePaneIds |-> <<>>]),
       LAMBDA r :
         IF Len(r.updatePaneIds) > 0
         THEN [updatePane(updatePanes(sortOverlays(r.s, None), r.updatePaneIds), "x_axis_pane")
                 EXCEPT !.fx.returned = r.ids]
         ELSE [r.s EXCEPT !.fx.returned = r.ids])

\* lines 1286-1298
progressOverlayComplete(s) ==
  IF s.progressOverlayInfo # None
  THEN LET overlay == s.progressOverlayInfo[1].overlay
           paneId == s.progressOverlayInfo[1].paneId
       IN IF ~isDrawing(s, overlay)
          THEN [sortOverlays([s EXCEPT !.overlays =
                                OverlaysSet(@, paneId,
                                            Append(getOverlaysByPaneId(s, paneId), overlay))],
                             Some(paneId))
                  EXCEPT !.progressOverlayInfo = None]
          ELSE s
  ELSE s

\* lines 1174-1205; filter is [id, groupId, paneId, name], each None or Some
getOverlaysByFilter(s, filter) ==
  LET keep(o) ==
        LET overlay == OverlayOf(s, o)
        IN IF IsValid(filter.id) THEN overlay.id = filter.id[1]
           ELSE IF IsValid(filter.groupId)
                THEN /\ overlay.groupId = filter.groupId[1]
                     /\ (~IsValid(filter.name) \/ overlay.name = filter.name[1])
                ELSE ~IsValid(filter.name) \/ overlay.name = filter.name[1]
      find(list) == SelectSeq(list, keep)
      map == IF IsValid(filter.paneId)
             THEN <<[paneId |-> filter.paneId[1],
                     overlays |-> find(getOverlaysByPaneId(s, filter.paneId[1]))]>>
             ELSE [i \in 1..Len(s.overlays) |->
                     [paneId |-> s.overlays[i].paneId,
                      overlays |-> find(s.overlays[i].overlays)]]
  IN IF s.progressOverlayInfo # None
     THEN LET progressOverlay == s.progressOverlayInfo[1].overlay
              paneId == OverlayOf(s, progressOverlay).paneId
              paneOverlays == IF HasOverlays(map, paneId)
                              THEN (CHOOSE e \in {map[i] : i \in 1..Len(map)} :
                                      e.paneId = paneId).overlays
                              ELSE <<>>
          IN OverlaysSet(map, paneId, Append(paneOverlays, progressOverlay))
     ELSE map

\* lines 1347-1363 for one overlay of the filtered map
removeOneOverlay(s, paneId, overlay) ==
  LET s1 == fire(s, "onRemoved", overlay)
      paneOverlays == getOverlaysByPaneId(s1, paneId)
      s2 == IF isDrawing(s1, overlay)
            THEN [s1 EXCEPT !.progressOverlayInfo = None]
            ELSE LET same == {i \in 1..Len(paneOverlays) :
                                OverlayOf(s1, paneOverlays[i]).id = OverlayOf(s1, overlay).id}
                 IN IF same # {}
                    THEN LET index == CHOOSE i \in same : \A j \in same : i <= j
                         IN [s1 EXCEPT !.overlays =
                               OverlaysSet(@, paneId,
                                 [i \in 1..(Len(paneOverlays) - 1) |->
                                    IF i < index THEN paneOverlays[i]
                                    ELSE paneOverlays[i + 1]])]
                    ELSE s1
  IN IF getOverlaysByPaneId(s2, paneId) = <<>>
     THEN [s2 EXCEPT !.overlays = OverlaysDelete(@, paneId)]
     ELSE s2

\* lines 1345-1364: r is [s, updatePaneIds]
RECURSIVE removeOverlaysOf(_, _, _)
removeOverlaysOf(r, paneId, list) ==
  IF list = <<>> THEN r
  ELSE removeOverlaysOf([s |-> removeOneOverlay(r.s, paneId, Head(list)),
                         updatePaneIds |-> PushNew(r.updatePaneIds, paneId)],
                        paneId, Tail(list))

RECURSIVE removeOverlaysIn(_, _)
removeOverlaysIn(r, filterMap) ==
  IF filterMap = <<>> THEN r
  ELSE removeOverlaysIn(
         Then(r, LAMBDA q : removeOverlaysOf(q, Head(filterMap).paneId,
                                             Head(filterMap).overlays)),
         Tail(filterMap))

\* lines 1342-1371
removeOverlay(s, filter) ==
  Then(removeOverlaysIn([s |-> s, updatePaneIds |-> <<>>], getOverlaysByFilter(s, filter)),
       LAMBDA r :
         IF Len(r.updatePaneIds) > 0
         THEN updatePane(updatePanes(r.s, r.updatePaneIds), "x_axis_pane")
         ELSE r.s)

\* A faulty variant: the overlay of the slot is not told that the pointer left
setHoverOverlayInfoNoLeave(s, info) ==
  LET overlay == s.hoverOverlayInfo.overlay
      infoOverlay == info.overlay
      otherId == IdOf(s, overlay) # IdOf(s, infoOverlay)
  IN IF otherId \/ s.hoverOverlayInfo.figureType # info.figureType
        \/ s.hoverOverlayInfo.figureIndex # info.figureIndex
     THEN LET s1 == [s EXCEPT !.hoverOverlayInfo = info]
          IN IF otherId
             THEN sortOverlays(IF infoOverlay # None
                               THEN fire(s1, "onMouseEnter", infoOverlay[1]) ELSE s1,
                               None)
             ELSE s1
     ELSE s

\* lines 1381-1416; info is [paneId, overlay, figureType, figureKey, figureIndex,
\* attrsIndex], overlay None or Some
setHoverOverlayInfo(s, info) ==
  LET overlay == s.hoverOverlayInfo.overlay
      infoOverlay == info.overlay
      otherId == IdOf(s, overlay) # IdOf(s, infoOverlay)
  IN IF otherId \/ s.hoverOverlayInfo.figureType # info.figureType
        \/ s.hoverOverlayInfo.figureIndex # info.figureIndex
     THEN LET s1 == [s EXCEPT !.hoverOverlayInfo = info]
          IN IF otherId
             THEN LET s2 == IF overlay # None THEN fire(s1, "onMouseLeave", overlay[1])
                            ELSE s1
                      s3 == IF infoOverlay # None
                            THEN fire(s2, "onMouseEnter", infoOverlay[1]) ELSE s2
                      sortFlag == overlay # None \/ infoOverlay # None
                      ignoreUpdateFlag ==
                        \/ overlay # None /\ OverlayOf(s, overlay[1]).callbacks
                        \/ infoOverlay # None /\ OverlayOf(s, infoOverlay[1]).callbacks
                      s4 == IF sortFlag THEN sortOverlays(s3, None) ELSE s3
                  IN IF ~ignoreUpdateFlag THEN updatePane(s4, "all") ELSE s4
             ELSE s1
     ELSE s

\* A faulty variant: onClick is fired only when the click slot changes
setClickOverlayInfoOnChange(s, info) ==
  LET overlay == s.clickOverlayInfo.overlay
      paneId == s.clickOverlayInfo.paneId
      infoOverlay == info.overlay
      otherId == IdOf(s, overlay) # IdOf(s, infoOverlay)
  IN IF otherId \/ s.clickOverlayInfo.figureType # info.figureType
        \/ s.clickOverlayInfo.figureIndex # info.figureIndex
     THEN LET s0 == IF infoOverlay # None /\ ~isDrawing(s, infoOverlay[1])
                    THEN fire(s, "onClick", infoOverlay[1]) ELSE s
              s1 == [s0 EXCEPT !.clickOverlayInfo = info]
          IN IF otherId
             THEN LET s2 == IF overlay # None THEN fire(s1, "onDeselected", overlay[1])
                            ELSE s1
                      s3 == IF infoOverlay # None
                            THEN fire(s2, "onSelected", infoOverlay[1]) ELSE s2
                      s4 == updatePane(s3, info.paneId)
                      s5 == IF paneId # info.paneId THEN updatePane(s4, paneId) ELSE s4
                  IN updatePane(s5, "x_axis_pane")
             ELSE s1
     ELSE s

\* lines 1422-1440
setClickOverlayInfo(s, info) ==
  LET overlay == s.clickOverlayInfo.overlay
      paneId == s.clickOverlayInfo.paneId
      infoOverlay == info.overlay
      otherId == IdOf(s, overlay) # IdOf(s, infoOverlay)
      s0 == IF infoOverlay # None /\ ~isDrawing(s, infoOverlay[1])
            THEN fire(s, "onClick", infoOverlay[1]) ELSE s
  IN IF otherId \/ s.clickOverlayInfo.figureType # info.figureType
        \/ s.clickOverlayInfo.figureIndex # info.figureIndex
     THEN LET s1 == [s0 EXCEPT !.clickOverlayInfo = info]
          IN IF otherId
             THEN LET s2 == IF overlay # None THEN fire(s1, "onDeselected", overlay[1])
                            ELSE s1
                      s3 == IF infoOverlay # None
                            THEN fire(s2, "onSelected", infoOverlay[1]) ELSE s2
                      s4 == updatePane(s3, info.paneId)
                      s5 == IF paneId # info.paneId THEN updatePane(s4, paneId) ELSE s4
                  IN updatePane(s5, "x_axis_pane")
             ELSE s1
     ELSE s0

----------------------------------------------------------------------------
(* The state machine *)

Cur ==
  [dataList |-> dataList, loadMoreDataCallback |-> loadMoreDataCallback,
   loading |-> loading, loadDataMore |-> loadDataMore,
   dateTimeFormat |-> dateTimeFormat, zoomEnabled |-> zoomEnabled,
   scrollEnabled |-> scrollEnabled, totalBarSpace |-> totalBarSpace,
   barSpace |-> barSpace, gapBarSpace |-> gapBarSpace,
   offsetRightDistance |-> offsetRightDistance,
   lastBarRightSideDiffBarCount |-> lastBarRightSideDiffBarCount,
   startLastBarRightSideDiffBarCount |-> startLastBarRightSideDiffBarCount,
   scrollLimitRole |-> scrollLimitRole, minVisibleBarCount |-> minVisibleBarCount,
   maxOffsetDistance |-> maxOffsetDistance, visibleRange |-> visibleRange,
   cacheVisibleRange |-> cacheVisibleRange, timeTicks |-> timeTicks,
   visibleRangeDataList |-> visibleRangeDataList, crosshair |-> crosshair,
   indicators |-> indicators, tasks |-> tasks, requests |-> requests, fx |-> fx, timezone |-> timezone, taskCount |-> taskCount, subscribed |-> subscribed, actions |-> actions, callbackLog |-> callbackLog, clickOverlayInfo |-> clickOverlayInfo, hoverOverlayInfo |-> hoverOverlayInfo, progressOverlayInfo |-> progressOverlayInfo, overlays |-> overlays, overlayObjects |-> overlayObjects,
   visibleRangeTimeTickList |-> visibleRangeTimeTickList]

\* The fields of the Store as the constructor leaves them (lines 151-333)
Constructed ==
  [dataList |-> <<>>, loadMoreDataCallback |-> FALSE, loading |-> TRUE,
   loadDataMore |-> [forward |-> FALSE, backward |-> FALSE],
   dateTimeFormat |-> 0, zoomEnabled |-> TRUE, scrollEnabled |-> TRUE,
   totalBarSpace |-> 0, barSpace |-> DEFAULT_BAR_SPACE,
   gapBarSpace |-> GapOf(DEFAULT_BAR_SPACE),
   offsetRightDistance |-> DEFAULT_OFFSET_RIGHT_DISTANCE,
   lastBarRightSideDiffBarCount |-> PerBar(DEFAULT_OFFSET_RIGHT_DISTANCE, DEFAULT_BAR_SPACE),
   startLastBarRightSideDiffBarCount |-> 0,
   scrollLimitRole |-> "BarCount",
   minVisibleBarCount |-> [left |-> 2, right |-> 2],
   maxOffsetDistance |-> [left |-> 50, right |-> 50],
   visibleRange |-> getDefaultVisibleRange,
   cacheVisibleRange |-> getDefaultVisibleRange,
   timeTicks |-> EmptyTicks, visibleRangeDataList |-> <<>>,
   crosshair |-> EmptyCrosshair, indicators |-> <<>>, tasks |-> <<>>,
   requests |-> <<>>, fx |-> NoFx("new", <<>>), timezone |-> "auto", taskCount |-> 0, subscribed |-> [now |-> {}, ever |-> {}], actions |-> <<>>, callbackLog |-> <<>>, clickOverlayInfo |-> NoOverlayInfo, hoverOverlayInfo |-> NoOverlayInfo, progressOverlayInfo |-> None, overlays |-> <<>>, overlayObjects |-> <<>>,
   visibleRangeTimeTickList |-> <<>>]

Install(s) ==
  /\ dataList' = s.dataList
  /\ loadMoreDataCallback' = s.loadMoreDataCallback
  /\ loading' = s.loading
  /\ loadDataMore' = s.loadDataMore
  /\ dateTimeFormat' = s.dateTimeFormat
  /\ zoomEnabled' = s.zoomEnabled
  /\ scrollEnabled' = s.scrollEnabled
  /\ totalBarSpace' = s.totalBarSpace
  /\ barSpace' = s.barSpace
  /\ gapBarSpace' = s.gapBarSpace
  /\ offsetRightDistance' = s.offsetRightDistance
  /\ lastBarRightSideDiffBarCount' = s.lastBarRightSideDiffBarCount
  /\ startLastBarRightSideDiffBarCount' = s.startLastBarRightSideDiffBarCount
  /\ scrollLimitRole' = s.scrollLimitRole
  /\ minVisibleBarCount' = s.minVisibleBarCount
  /\ maxOffsetDistance' = s.maxOffsetDistance
  /\ visibleRange' = s.visibleRange
  /\ cacheVisibleRange' = s.cacheVisibleRange
  /\ timeTicks' = s.timeTicks
  /\ visibleRangeDataList' = s.visibleRangeDataList
  /\ crosshair' = s.crosshair
  /\ indicators' = s.indicators
  /\ tasks' = s.tasks
  /\ requests' = s.requests
  /\ fx' = s.fx
  /\ timezone' = s.timezone
  /\ taskCount' = s.taskCount
  /\ subscribed' = s.subscribed
  /\ actions' = s.actions
  /\ callbackLog' = s.callbackLog
  /\ clickOverlayInfo' = s.clickOverlayInfo
  /\ hoverOverlayInfo' = s.hoverOverlayInfo
  /\ progressOverlayInfo' = s.progressOverlayInfo
  /\ overlays' = s.overlays
  /\ overlayObjects' = s.overlayObjects
  /\ visibleRangeTimeTickList' = s.visibleRangeTimeTickList

\* One call of the Store's interface by the host or the chart
Call(s) ==
  /\ steps' = steps + 1
  /\ \E r \in {s} :
       /\ Install(r)
       /\ taskLog' = taskLog
                       \o [i \in 1..Len(r.fx.pending) |->
                             [event |-> "removed", id |-> r.fx.pending[i].id,
                              task |-> r.fx.pending[i].n, run |-> 0]]
                       \o [i \in 1..Len(r.fx.submitted) |->
                             [event |-> "submit", id |-> r.fx.submitted[i].id,
                              task |-> r.fx.submitted[i].n, run |-> 0]]
  /\ UNCHANGED running

\* The Store as a method finds it: the record of its fields, evaluated once
Enter(op, arg, Method(_)) == Call(Then(Begin(Cur, op, arg), Method))

(* Inputs *)

BarSpaces == {1, 3, 10, 50}               \* the bar spaces the model reaches
TotalBarSpaces == {0, 4, 12}              \* widths of the drawing area
ScrollDistances == {-300, -1, 2}
Anchors == {None, Some(3)}                \* zoom's coordinate: none, or x = 3
CrosshairXs == {None, Some(3)}
InitPlaces == {3}                         \* where an Init array starts in Timeline
Hints == {[forward |-> TRUE, backward |-> FALSE], [forward |-> FALSE, backward |-> TRUE]}
LimitDistances == {2}                     \* setMaxOffset...Distance, pixels
LimitBarCounts == {1}                     \* set...MinVisibleBarCount
OffsetRightDistances == {1}
Panes == {"candle_pane"}
IndicatorNames == {"MA"}

Init ==
  /\ \E w \in TotalBarSpaces : \E s \in {setTotalBarSpace(Constructed, w)} :
       /\ dataList = s.dataList
       /\ loadMoreDataCallback = s.loadMoreDataCallback
       /\ loading = s.loading
       /\ loadDataMore = s.loadDataMore
       /\ dateTimeFormat = s.dateTimeFormat
       /\ zoomEnabled = s.zoomEnabled
       /\ scrollEnabled = s.scrollEnabled
       /\ totalBarSpace = s.totalBarSpace
       /\ barSpace = s.barSpace
       /\ gapBarSpace = s.gapBarSpace
       /\ offsetRightDistance = s.offsetRightDistance
       /\ lastBarRightSideDiffBarCount = s.lastBarRightSideDiffBarCount
       /\ startLastBarRightSideDiffBarCount = s.startLastBarRightSideDiffBarCount
       /\ scrollLimitRole = s.scrollLimitRole
       /\ minVisibleBarCount = s.minVisibleBarCount
       /\ maxOffsetDistance = s.maxOffsetDistance
       /\ visibleRange = s.visibleRange
       /\ cacheVisibleRange = s.cacheVisibleRange
       /\ timeTicks = s.timeTicks
       /\ visibleRangeDataList = s.visibleRangeDataList
       /\ crosshair = s.crosshair
       /\ indicators = s.indicators
       /\ tasks = s.tasks
       /\ requests = s.requests
       /\ fx = NoFx("new", <<>>)
       /\ timezone = s.timezone
       /\ taskCount = s.taskCount
       /\ subscribed = s.subscribed
       /\ actions = s.actions
       /\ callbackLog = s.callbackLog
       /\ clickOverlayInfo = s.clickOverlayInfo
       /\ hoverOverlayInfo = s.hoverOverlayInfo
       /\ progressOverlayInfo = s.progressOverlayInfo
       /\ overlays = s.overlays
       /\ overlayObjects = s.overlayObjects
       /\ visibleRangeTimeTickList = s.visibleRangeTimeTickList
  /\ running = <<>>
  /\ taskLog = <<>>
  /\ steps = 0

(* The pages the host can give: the bars of Timeline next to the window *)

ForwardPages ==
  LET first == IF dataList = <<>> THEN CHOOSE p \in InitPlaces : TRUE
               ELSE PlaceOf(dataList[1].timestamp)
  IN {Slice(first - k, first - 1) :
        k \in {k \in 0..MaxPage : first - k >= 1 /\ Len(dataList) + k <= MaxData}}

BackwardPages ==
  LET last == IF dataList = <<>> THEN (CHOOSE p \in InitPlaces : TRUE) - 1
              ELSE PlaceOf(dataList[Len(dataList)].timestamp)
  IN {Slice(last + 1, last + k) :
        k \in {k \in 0..MaxPage : last + k <= Len(Timeline) /\ Len(dataList) + k <= MaxData}}

\* A single bar: newer than, equal to or older than the last bar of the window
SingleBars ==
  LET last == IF dataList = <<>> THEN (CHOOSE p \in InitPlaces : TRUE)
              ELSE PlaceOf(dataList[Len(dataList)].timestamp)
  IN {Bar(Timeline[k], 2) :
        k \in {k \in {last - 1, last, last + 1} :
                 /\ 1 <= k /\ k <= Len(Timeline)
                 /\ (Len(dataList) = MaxData => k <= last)}}

AddDataInit ==
  /\ steps < MaxSteps
  /\ \E p \in InitPlaces, n \in 0..MaxPage, more \in Hints :
       Enter("addData", [type |-> "Init", isArray |-> TRUE, more |-> more,
                         data |-> Slice(p, p + n - 1), via |-> "host"],
             LAMBDA s : addData(s, Slice(p, p + n - 1), TRUE, "Init", more))

AddDataForward ==
  /\ steps < MaxSteps
  /\ \E data \in ForwardPages, more \in Hints :
       Enter("addData", [type |-> "Forward", isArray |-> TRUE, more |-> more,
                         data |-> data, via |-> "host"],
             LAMBDA s : addData(s, data, TRUE, "Forward", more))

AddDataBackward ==
  /\ steps < MaxSteps
  /\ \E data \in BackwardPages, more \in Hints :
       Enter("addData", [type |-> "Backward", isArray |-> TRUE, more |-> more,
                         data |-> data, via |-> "host"],
             LAMBDA s : addData(s, data, TRUE, "Backward", more))

\* The host answers a load request: params.callback(data, more), lines 691-693, 702-704
LoadCallback ==
  /\ steps < MaxSteps
  /\ \E i \in 1..Len(requests), more \in BOOLEAN :
       \E data \in IF requests[i] = "Forward" THEN ForwardPages ELSE BackwardPages :
         LET hints == [forward |-> more, backward |-> more]
             rest == [k \in 1..(Len(requests) - 1) |->
                        IF k < i THEN requests[k] ELSE requests[k + 1]]
         IN Enter("addData", [type |-> requests[i], isArray |-> TRUE, more |-> hints,
                              data |-> data, via |-> "callback"],
                  LAMBDA s : addData([s EXCEPT !.requests = rest], data, TRUE, requests[i], hints))

\* The host answers a load request, at any time after the request: the steps of
\* the host's answers are bounded by the requests there can be, one for each
\* other call and each bar of the window
MaxAnswerSteps == MaxSteps + MaxSteps + MaxData + 1

AnswerRequest ==
  /\ steps < MaxAnswerSteps
  /\ \E i \in 1..Len(requests), more \in BOOLEAN :
       \E data \in IF requests[i] = "Forward" THEN ForwardPages ELSE BackwardPages :
         LET hints == [forward |-> more, backward |-> more]
             rest == [k \in 1..(Len(requests) - 1) |->
                        IF k < i THEN requests[k] ELSE requests[k + 1]]
         IN Enter("addData", [type |-> requests[i], isArray |-> TRUE, more |-> hints,
                              data |-> data, via |-> "callback"],
                  LAMBDA s : addData([s EXCEPT !.requests = rest], data, TRUE, requests[i], hints))

AddDataBar ==
  /\ steps < MaxSteps
  /\ \E data \in SingleBars :
       Enter("addData", [type |-> "Update", isArray |-> FALSE,
                         more |-> [forward |-> FALSE, backward |-> FALSE],
                         data |-> data, via |-> "host"],
             LAMBDA s : addData(s, data, FALSE, "Update", [forward |-> FALSE, backward |-> FALSE]))

Clear ==
  /\ steps < MaxSteps
  /\ Enter("clear", <<>>, clear)

SetLoadMoreDataCallback ==
  /\ steps < MaxSteps
  /\ Enter("setLoadMoreDataCallback", <<>>, setLoadMoreDataCallback)

SetBarSpace ==
  /\ steps < MaxSteps
  /\ \E v \in BarSpaces \cup {BarSpaceLimitMIN - 1, BarSpaceLimitMAX + 1} :
       Enter("setBarSpace", [barSpace |-> v], LAMBDA s : setBarSpace(s, v, None))

SetTotalBarSpace ==
  /\ steps < MaxSteps
  /\ \E w \in TotalBarSpaces :
       Enter("setTotalBarSpace", [totalSpace |-> w], LAMBDA s : setTotalBarSpace(s, w))

SetOffsetRightDistance ==
  /\ steps < MaxSteps
  /\ \E d \in OffsetRightDistances, isUpdate \in BOOLEAN :
       Enter("setOffsetRightDistance", [distance |-> d, isUpdate |-> isUpdate],
             LAMBDA s : setOffsetRightDistance(s, d, isUpdate))

SetMaxOffsetLeftDistance ==
  /\ steps < MaxSteps
  /\ \E d \in LimitDistances :
       Enter("setMaxOffsetLeftDistance", [distance |-> d],
             LAMBDA s : setMaxOffsetLeftDistance(s, d))

SetMaxOffsetRightDistance ==
  /\ steps < MaxSteps
  /\ \E d \in LimitDistances :
       Enter("setMaxOffsetRightDistance", [distance |-> d],
             LAMBDA s : setMaxOffsetRightDistance(s, d))

SetLeftMinVisibleBarCount ==
  /\ steps < MaxSteps
  /\ \E n \in LimitBarCounts :
       Enter("setLeftMinVisibleBarCount", [barCount |-> n],
             LAMBDA s : setLeftMinVisibleBarCount(s, n))

SetRightMinVisibleBarCount ==
  /\ steps < MaxSteps
  /\ \E n \in LimitBarCounts :
       Enter("setRightMinVisibleBarCount", [barCount |-> n],
             LAMBDA s : setRightMinVisibleBarCount(s, n))

StartScroll ==
  /\ steps < MaxSteps
  /\ Enter("startScroll", <<>>, startScroll)

Scroll ==
  /\ steps < MaxSteps
  /\ \E d \in ScrollDistances :
       Enter("scroll", [distance |-> d], LAMBDA s : scroll(s, d))

\* zoom(scale, coordinate) with the scale that leads from barSpace to target:
\* barSpace + scale * (barSpace / SCALE_MULTIPLIER) = target
Zoom ==
  /\ steps < MaxSteps
  /\ \E target \in (BarSpaces \cup {BarSpaceLimitMIN - 1, BarSpaceLimitMAX + 1}) \ {barSpace},
        coordinate \in Anchors :
       LET scale == <<SCALE_MULTIPLIER * (target - barSpace), barSpace>>
       IN Enter("zoom", [scale |-> scale, coordinate |-> coordinate],
                LAMBDA s : zoom(s, scale, coordinate))

Timezones == {"auto", "Europe/Paris", "Mars/Olympus"}

SetOptions ==
  /\ steps < MaxSteps
  /\ \E zone \in {None} \cup {Some(z) : z \in Timezones} :
       Enter("setOptions", [timezone |-> zone],
             LAMBDA s : setOptions(s, [timezone |-> zone]))

SetZoomEnabled ==
  /\ steps < MaxSteps
  /\ \E enabled \in BOOLEAN :
       Enter("setZoomEnabled", [enabled |-> enabled],
             LAMBDA s : [s EXCEPT !.zoomEnabled = enabled])

SetScrollEnabled ==
  /\ steps < MaxSteps
  /\ \E enabled \in BOOLEAN :
       Enter("setScrollEnabled", [enabled |-> enabled],
             LAMBDA s : [s EXCEPT !.scrollEnabled = enabled])

SetCrosshair ==
  /\ steps < MaxSteps
  /\ \E x \in CrosshairXs :
       Enter("setCrosshair", [x |-> x],
             LAMBDA s : setCrosshair(s, [EmptyCrosshair EXCEPT !.x = x], FALSE))

AddIndicator ==
  /\ steps < MaxSteps
  /\ \E name \in IndicatorNames, paneId \in Panes, isStack \in BOOLEAN :
       Enter("addIndicator", [name |-> name, paneId |-> paneId, isStack |-> isStack],
             LAMBDA s : addIndicator(s, name, paneId, isStack))

\* addIndicator on a chart of several panes and indicator templates
IndicatorPanes == {"candle_pane", "pane_1"}

StackedIndicatorNames == {"MA", "VOL"}

AddIndicatorToPane ==
  /\ steps < MaxSteps
  /\ \E name \in StackedIndicatorNames, paneId \in IndicatorPanes, isStack \in BOOLEAN :
       Enter("addIndicator", [name |-> name, paneId |-> paneId, isStack |-> isStack],
             LAMBDA s : addIndicator(s, name, paneId, isStack))

IndicatorFilters ==
  {[paneId |-> paneId, name |-> name] :
     paneId \in {None} \cup {Some(p) : p \in Panes},
     name \in {None} \cup {Some(n) : n \in IndicatorNames}}

RemoveIndicator ==
  /\ steps < MaxSteps
  /\ \E filter \in IndicatorFilters :
       Enter("removeIndicator", [filter |-> filter], LAMBDA s : removeIndicator(s, filter))

\* removeIndicator on a chart of several panes and indicator templates
StackedIndicatorFilters ==
  {[paneId |-> paneId, name |-> name] :
     paneId \in {None} \cup {Some(p) : p \in IndicatorPanes},
     name \in {None} \cup {Some(n) : n \in StackedIndicatorNames}}

RemoveIndicatorOfPanes ==
  /\ steps < MaxSteps
  /\ \E filter \in StackedIndicatorFilters :
       Enter("removeIndicator", [filter |-> filter], LAMBDA s : removeIndicator(s, filter))

(* The scheduler and the indicators' computations.  The handler of a task  *)
(* returns as soon as it has called calcImp, so the scheduler holds a task   *)
(* only until it starts it; calcImp's promise settles later, with a truthy   *)
(* or falsy result or a rejection.                                           *)

\* calcImp resolves with a truthy or falsy result or rejects; the host's
\* onDataStateChange may throw when it is told Ready, inside the then-handler
Outcomes == {"true", "false", "reject", "readyHookThrows"}

\* The scheduler starts a waiting task: the handler's synchronous part, lines 999-1004
RunTask ==
  \E i \in 1..Len(tasks) :
    /\ tasks' = removeTask(tasks, tasks[i].id)
    /\ running' = Append(running, [id |-> tasks[i].id, type |-> tasks[i].type,
                                   task |-> tasks[i].n,
                                   run |-> Len(SelectSeq(taskLog,
                                             LAMBDA e : e.event = "Loading")) + 1])
    /\ taskLog' = Append(taskLog, [event |-> "Loading", id |-> tasks[i].id,
                                   task |-> tasks[i].n,
                                   run |-> Len(SelectSeq(taskLog,
                                             LAMBDA e : e.event = "Loading")) + 1])
    /\ UNCHANGED <<dataList, loadMoreDataCallback, loading, loadDataMore, dateTimeFormat,
                   zoomEnabled, scrollEnabled, totalBarSpace, barSpace, gapBarSpace,
                   offsetRightDistance, lastBarRightSideDiffBarCount,
                   startLastBarRightSideDiffBarCount, scrollLimitRole, minVisibleBarCount,
                   maxOffsetDistance, visibleRange, cacheVisibleRange, timeTicks,
                   visibleRangeDataList, crosshair, indicators, requests,
                   visibleRangeTimeTickList, overlayObjects, overlays,
                   progressOverlayInfo, hoverOverlayInfo, clickOverlayInfo, callbackLog,
                   actions, subscribed,
          taskCount,
          timezone, fx, steps>>

\* What the handlers of lines 1005-1024 do when calcImp's promise settles: the
\* then-handler, and the catch-handler chained behind it
SettleEvents(outcome) ==
  CASE outcome = "true" -> <<"layout", "Ready">>
    [] outcome = "false" -> <<"Nothing">>
    [] outcome = "reject" -> <<"Error">>
    [] outcome = "readyHookThrows" -> <<"layout", "Ready", "Error">>

\* calcImp's promise settles: lines 1005-1024
Settle ==
  \E i \in 1..Len(running), outcome \in Outcomes :
    /\ running' = [k \in 1..(Len(running) - 1) |->
                     IF k < i THEN running[k] ELSE running[k + 1]]
    /\ taskLog' = taskLog \o [k \in 1..Len(SettleEvents(outcome)) |->
                                [event |-> SettleEvents(outcome)[k],
                                 id |-> running[i].id, task |-> running[i].task,
                                 run |-> running[i].run]]
    /\ UNCHANGED <<dataList, loadMoreDataCallback, loading, loadDataMore, dateTimeFormat,
                   zoomEnabled, scrollEnabled, totalBarSpace, barSpace, gapBarSpace,
                   offsetRightDistance, lastBarRightSideDiffBarCount,
                   startLastBarRightSideDiffBarCount, scrollLimitRole, minVisibleBarCount,
                   maxOffsetDistance, visibleRange, cacheVisibleRange, timeTicks,
                   visibleRangeDataList, crosshair, indicators, tasks, requests,
                   visibleRangeTimeTickList, overlayObjects, overlays,
                   progressOverlayInfo, hoverOverlayInfo, clickOverlayInfo, callbackLog,
                   actions, subscribed,
          taskCount,
          timezone, fx, steps>>

(* Overlays: the host creates and removes them, the event handlers of the    *)
(* chart report what the pointer is over and finish a drawing.               *)

\* The points of an overlay: by data index, by timestamp, by both, by neither
Point(dataIndex, timestamp) == [dataIndex |-> dataIndex, timestamp |-> timestamp]

OverlayCreates ==
  {[name |-> "segment", id |-> Some("a"), paneId |-> "candle_pane", zLevel |-> 0,
    currentStep |-> "start", callbacks |-> TRUE,
    points |-> <<Point(Some(0), None)>>],
   [name |-> "segment", id |-> Some("a"), paneId |-> "candle_pane", zLevel |-> 0,
    currentStep |-> "finished", callbacks |-> TRUE,
    points |-> <<Point(Some(0), None), Point(Some(1), Some(Timeline[3]))>>],
   [name |-> "segment", id |-> Some("b"), paneId |-> "candle_pane", zLevel |-> -1,
    currentStep |-> "finished", callbacks |-> TRUE,
    points |-> <<Point(Some(1), None), Point(None, Some(Timeline[4]))>>],
   [name |-> "segment", id |-> None, paneId |-> "indicator_pane", zLevel |-> 0,
    currentStep |-> "finished", callbacks |-> FALSE,
    points |-> <<Point(Some(5), None), Point(None, None)>>]}

\* The overlays of the Store: those of the panes and the one in progress
StoredOverlays ==
  UNION {{overlays[i].overlays[k] : k \in 1..Len(overlays[i].overlays)} :
           i \in 1..Len(overlays)}
    \cup (IF progressOverlayInfo # None THEN {progressOverlayInfo[1].overlay} ELSE {})

\* What a pointer event finds: no overlay, or a figure of a stored overlay
OverlayInfos ==
  {NoOverlayInfo}
    \cup {[paneId |-> overlayObjects[o].paneId, overlay |-> Some(o), figureType |-> ft,
           figureKey |-> "", figureIndex |-> 0, attrsIndex |-> 0] :
            o \in StoredOverlays, ft \in {"Point", "Other"}}

OverlayFilters ==
  {[id |-> id, groupId |-> None, paneId |-> None, name |-> None] :
     id \in {None, Some("a"), Some("b")}}

AddOverlays ==
  /\ steps < MaxOverlaySteps
  /\ Len(overlayObjects) + 2 <= 4
  /\ \E os \in {<<c>> : c \in OverlayCreates}
              \cup {p \in OverlayCreates \X OverlayCreates : p[1] # p[2]} :
       Enter("addOverlays", [os |-> os],
             LAMBDA s : addOverlays(s, os, [k \in 1..Len(os) |-> FALSE]))

\* The drawing of the overlay in progress reaches its last step (OverlayImp)
FinishDrawing ==
  /\ steps < MaxOverlaySteps
  /\ progressOverlayInfo # None
  /\ overlayObjects[progressOverlayInfo[1].overlay].currentStep # "finished"
  /\ Enter("drawing", [overlay |-> progressOverlayInfo[1].overlay],
           LAMBDA s : [s EXCEPT !.overlayObjects[s.progressOverlayInfo[1].overlay].currentStep
                                   = "finished"])

ProgressOverlayComplete ==
  /\ steps < MaxOverlaySteps
  /\ Enter("progressOverlayComplete", <<>>, LAMBDA s : progressOverlayComplete(s))

RemoveOverlay ==
  /\ steps < MaxOverlaySteps
  /\ \E filter \in OverlayFilters :
       Enter("removeOverlay", [filter |-> filter], LAMBDA s : removeOverlay(s, filter))

SetHoverOverlayInfo ==
  /\ steps < MaxOverlaySteps
  /\ \E info \in OverlayInfos :
       Enter("setHoverOverlayInfo", [info |-> info], LAMBDA s : setHoverOverlayInfo(s, info))

SetClickOverlayInfo ==
  /\ steps < MaxOverlaySteps
  /\ \E info \in OverlayInfos :
       Enter("setClickOverlayInfo", [info |-> info], LAMBDA s : setClickOverlayInfo(s, info))

(* The action bus: the host subscribes to and unsubscribes from event types *)

ActionTypes == {"onScroll", "onZoom", "onVisibleRangeChange"}
Callbacks == {"f", "g"}

SubscribeAction ==
  /\ steps < MaxSteps
  /\ \E type \in ActionTypes, callback \in Callbacks :
       Enter("subscribeAction", [type |-> type, callback |-> callback],
             LAMBDA s : [subscribeAction(s, type, callback) EXCEPT
                           !.subscribed = [now |-> @.now \cup {<<type, callback>>},
                                           ever |-> @.ever \cup {<<type, callback>>}]])

\* callback None: unsubscribeAction(type), every callback of the type
UnsubscribeAction ==
  /\ steps < MaxSteps
  /\ \E type \in ActionTypes, callback \in {None} \cup {Some(c) : c \in Callbacks} :
       Enter("unsubscribeAction", [type |-> type, callback |-> callback],
             LAMBDA s : [unsubscribeAction(s, type, callback) EXCEPT
                           !.subscribed.now =
                              {p \in @ : ~(/\ p[1] = type
                                           /\ (callback = None \/ p[2] = callback[1]))}])

ExecuteAction ==
  /\ steps < MaxSteps
  /\ \E type \in ActionTypes :
       Enter("executeAction", [type |-> type], LAMBDA s : executeAction(s, type, <<>>))

----------------------------------------------------------------------------
(* Specifications *)

\* The data window and the viewport
Next ==
  \/ AddDataInit
  \/ AddDataForward
  \/ AddDataBackward
  \/ AddDataBar
  \/ Clear
  \/ SetBarSpace
  \/ SetTotalBarSpace
  \/ StartScroll
  \/ Scroll
  \/ Zoom

Spec == Init /\ [][Next]_vars

\* The options: the time zone of the tick labels
NextOptions ==
  \/ SetOptions
  \/ AddDataInit
  \/ AddDataForward
  \/ AddDataBar
  \/ Clear
  \/ SetBarSpace

SpecOptions == Init /\ [][NextOptions]_vars

\* Pagination: the load-more callback and the host's answers
NextPaging ==
  \/ SetLoadMoreDataCallback
  \/ AddDataInit
  \/ AddDataForward
  \/ AddDataBackward
  \/ LoadCallback
  \/ AddDataBar
  \/ SetTotalBarSpace
  \/ Scroll
  \/ Zoom

SpecPaging == Init /\ [][NextPaging]_vars

\* The scroll limits
NextLimits ==
  \/ AddDataInit
  \/ SetBarSpace
  \/ SetOffsetRightDistance
  \/ SetMaxOffsetLeftDistance
  \/ SetMaxOffsetRightDistance
  \/ SetLeftMinVisibleBarCount
  \/ SetRightMinVisibleBarCount
  \/ SetScrollEnabled
  \/ SetZoomEnabled
  \/ SetCrosshair
  \/ StartScroll
  \/ Scroll
  \/ Zoom

SpecLimits == Init /\ [][NextLimits]_vars

\* The indicators and their calculation tasks
NextTasks ==
  \/ AddIndicator
  \/ RemoveIndicator
  \/ AddDataInit
  \/ AddDataBar
  \/ RunTask
  \/ Settle

SpecTasks == Init /\ [][NextTasks]_vars

\* The overlays and the pointer events over them
NextOverlays ==
  \/ AddOverlays
  \/ FinishDrawing
  \/ ProgressOverlayComplete
  \/ RemoveOverlay
  \/ SetHoverOverlayInfo
  \/ SetClickOverlayInfo

SpecOverlays == Init /\ [][NextOverlays]_vars

\* The overlays and the loads that move the data under their points
NextOverlayData ==
  \/ AddOverlays
  \/ AddDataInit
  \/ AddDataForward
  \/ AddDataBackward
  \/ AddDataBar

SpecOverlayData == Init /\ [][NextOverlayData]_vars

\* The loads of a chart with indicators in several panes
NextResubmit ==
  \/ AddIndicatorToPane
  \/ AddDataInit
  \/ AddDataForward
  \/ AddDataBackward
  \/ AddDataBar

SpecResubmit == Init /\ [][NextResubmit]_vars

\* The indicators of a chart of several panes
NextIndicators ==
  \/ AddIndicatorToPane
  \/ RemoveIndicatorOfPanes

SpecIndicators == Init /\ [][NextIndicators]_vars

\* Pagination with a host that answers every request: a request that waits is
\* answered at some time (the host's contract for params.callback)
NextSettles ==
  \/ SetLoadMoreDataCallback
  \/ AddDataInit
  \/ Clear
  \/ SetTotalBarSpace
  \/ Scroll
  \/ AnswerRequest

SpecSettles == Init /\ [][NextSettles]_vars /\ WF_vars(AnswerRequest)

\* The action bus, and the operations that publish on it
NextActions ==
  \/ SubscribeAction
  \/ UnsubscribeAction
  \/ ExecuteAction
  \/ AddDataInit
  \/ Scroll
  \/ Zoom

SpecActions == Init /\ [][NextActions]_vars

----------------------------------------------------------------------------
(* Properties *)

\* C1: after any sequence of array loads, single-bar upserts, clear,
\* setBarSpace, setTotalBarSpace, zoom and scroll, the visible range satisfies
\* 0 <= from <= to <= dataCount.
C1_VisibleRangeWithinData ==
  /\ 0 <= visibleRange.from
  /\ visibleRange.from <= visibleRange.to
  /\ visibleRange.to <= Len(dataList)

\* A window scrolled so that bars are hidden on both sides
C1_Witness ==
  /\ fx.op = "scroll"
  /\ 0 < visibleRange.from
  /\ visibleRange.from < visibleRange.to
  /\ visibleRange.to < Len(dataList)

\* C2: at most one pagination request is in flight: once the load callback has
\* been invoked for a page, it is not invoked again before the callback of that
\* request has been invoked, whatever scroll, zoom, resize, single-bar upsert or
\* array load of the host happens in between.
C2_OneRequestInFlight == Len(requests) <= 1

\* A step of the model that is a call of addData with a single bar
SingleBarStep ==
  /\ steps' = steps + 1
  /\ fx'.op = "addData"
  /\ ~fx'.arg.isArray

\* C3: a single bar given to a non-empty window is appended when its timestamp
\* is greater than the last bar's (the length grows by one, the bar is the new
\* last bar, the earlier bars are unchanged), and replaces the last bar when
\* its timestamp equals the last bar's (the length and the earlier bars are
\* unchanged).
C3_SingleBarAppendsOrReplaces ==
  [][(SingleBarStep /\ dataList # <<>>) =>
       LET bar == fx'.arg.data
           last == dataList[Len(dataList)]
       IN /\ bar.timestamp > last.timestamp => dataList' = Append(dataList, bar)
          /\ bar.timestamp = last.timestamp =>
               dataList' = [dataList EXCEPT ![Len(dataList)] = bar]]_vars

\* A bar has replaced the last bar of a window of several bars
C3_Witness ==
  /\ fx.op = "addData"
  /\ ~fx.arg.isArray
  /\ fx.success
  /\ fx.dataLengthChange = 0
  /\ Len(dataList) >= 2
  /\ dataList[Len(dataList)] = fx.arg.data
  /\ dataList[Len(dataList) - 1].timestamp < fx.arg.data.timestamp

\* C4: a single bar older than the last bar is refused without effect: the data
\* window, the tick buckets, the right offset, the visible range, the crosshair
\* and the loading flag are unchanged, no indicator task is submitted and no
\* layout is requested.
C4_OlderBarIsRefused ==
  [][(/\ SingleBarStep
      /\ dataList # <<>>
      /\ fx'.arg.data.timestamp < dataList[Len(dataList)].timestamp) =>
       /\ UNCHANGED <<dataList, timeTicks, lastBarRightSideDiffBarCount, visibleRange,
                      crosshair, loading, tasks>>
       /\ fx'.submitted = <<>>
       /\ fx'.layout = 0]_vars

\* An older bar was given to a chart that has data and an indicator
C4_Witness ==
  /\ fx.op = "addData"
  /\ ~fx.arg.isArray
  /\ dataList # <<>>
  /\ fx.arg.data.timestamp < dataList[Len(dataList)].timestamp
  /\ indicators # <<>>

\* C5: setBarSpace(v) with v < 1, v > 50 or v the current bar space changes no
\* state and requests no layout; the bar space is within [1, 50] in every
\* reachable state, zoom calls included.
C5_BarSpaceWithinLimits ==
  /\ [](BarSpaceLimitMIN <= barSpace /\ barSpace <= BarSpaceLimitMAX)
  /\ [][(/\ steps' = steps + 1
         /\ fx'.op = "setBarSpace"
         /\ \/ fx'.arg.barSpace < BarSpaceLimitMIN
            \/ fx'.arg.barSpace > BarSpaceLimitMAX
            \/ fx'.arg.barSpace = barSpace) =>
          /\ UNCHANGED <<barSpace, gapBarSpace, lastBarRightSideDiffBarCount, visibleRange,
                         visibleRangeDataList, crosshair>>
          /\ fx'.layout = 0]_vars

\* setBarSpace(51) was refused on a chart that has data, at a bar space other than the default
C5_Witness ==
  /\ fx.op = "setBarSpace"
  /\ fx.arg.barSpace > BarSpaceLimitMAX
  /\ dataList # <<>>
  /\ barSpace # DEFAULT_BAR_SPACE

\* C6: for every data index i in [0, dataCount) and every bar space, viewport
\* width and right offset, coordinateToDataIndex(dataIndexToCoordinate(i)) is i.
C6_CoordinateRoundTrip ==
  \A i \in 0..(Len(dataList) - 1) :
    coordinateToDataIndex(Cur, dataIndexToCoordinate(Cur, i)) = i

\* The history of one task key
EventsOf(id) == SelectSeq(taskLog, LAMBDA e : e.id = id)
Settled == {"Ready", "Error", "Nothing"}
Completions == {"Ready", "Error"}

\* C7: two calculation tasks submitted for the same (paneId, indicatorName) key
\* before the first has resolved lead to one completion notification (Ready or
\* Error) for that key, never to two.
C7_OneCompletionNotification ==
  \A id \in {taskLog[i].id : i \in DOMAIN taskLog} :
    LET log == EventsOf(id)
        submits == {i \in DOMAIN log : log[i].event = "submit"}
        settles == {i \in DOMAIN log : log[i].event \in Settled}
        completions == {i \in DOMAIN log : log[i].event \in Completions}
    IN (Cardinality(submits) = 2 /\ \A i \in settles, j \in submits : j < i)
         => Cardinality(completions) <= 1

\* C8: when the viewport is re-derived while no load is in flight and a load
\* callback is registered, a Forward page is requested if from is 0 and the
\* forward-more flag is set, a Backward page is requested if to is dataCount and
\* the backward-more flag is set, and nothing is requested in any other case.
C8_PaginationTrigger ==
  (fx.adjusted /\ ~fx.loadingAtAdjust /\ loadMoreDataCallback) =>
    fx.request =
      IF visibleRange.from = 0 /\ loadDataMore.forward THEN "Forward"
      ELSE IF visibleRange.to = Len(dataList) /\ loadDataMore.backward THEN "Backward"
      ELSE "None"

\* The right offset in pixels is at most the right limit d
WithinRightLimit ==
  lastBarRightSideDiffBarCount * barSpace <= maxOffsetDistance.right * Unit

\* The last call was scroll, in pixel-distance mode, after setMaxOffsetRightDistance(d)
ScrolledUnderRightLimit ==
  /\ fx.op = "scroll"
  /\ scrollLimitRole = "Distance"
  /\ maxOffsetDistance.right \in LimitDistances

\* C9 as stated: in pixel-distance mode, after setMaxOffsetRightDistance(d) and
\* any scroll, whatever the size of the data window, the right offset in pixels
\* is at most d.
C9_RightOffsetWithinLimit == ScrolledUnderRightLimit => WithinRightLimit

\* C9, amended: it is so when scrolling is enabled, d >= 0 and the bars of the
\* data window fill the viewport up to the limit: dataCount * barSpace >=
\* totalBarSpace - d.
C9_RightOffsetWithinLimitWhenFilled ==
  (/\ ScrolledUnderRightLimit
   /\ scrollEnabled
   /\ maxOffsetDistance.right >= 0
   /\ Len(dataList) * barSpace >= totalBarSpace - maxOffsetDistance.right)
    => WithinRightLimit

\* A scroll to the left was held at the limit d
C9_Witness ==
  /\ ScrolledUnderRightLimit
  /\ scrollEnabled
  /\ dataList # <<>>
  /\ Len(dataList) * barSpace >= totalBarSpace - maxOffsetDistance.right
  /\ fx.arg.distance < 0
  /\ fx.clamped
  /\ lastBarRightSideDiffBarCount * barSpace = maxOffsetDistance.right * Unit

\* The last call was a zoom that changed the bar space
Zoomed == fx.op = "zoom" /\ fx.events # <<>>

\* The float index under zoom's x is what it was before the call, within 1e-6
AnchorHeld ==
  LET before == fx.floatIndex[1].floatIndex
      after == coordinateToFloatIndex(Cur, fx.floatIndex[1].x)
  IN /\ before - after <= Unit \div Precision
     /\ after - before <= Unit \div Precision
     /\ Ceil(before, Unit) = Ceil(after, Unit)

\* C10 as stated: zoom(scale, {x}) holds the data index under x fixed:
\* coordinateToFloatIndex(x), hence coordinateToDataIndex(x), is the same before
\* and after the call, for every scale whose bar space is accepted.
C10_ZoomHoldsAnchor == (Zoomed /\ IsValid(fx.arg.coordinate)) => AnchorHeld

\* C10, amended: it is so when _adjustVisibleRange does not bring the right
\* offset that zoom has set back within the scroll limits.
C10_ZoomHoldsAnchorWithinLimits == (Zoomed /\ ~fx.clamped) => AnchorHeld

\* A zoom about a given x moved the right offset of a chart that has data
C10_Witness ==
  /\ Zoomed
  /\ ~fx.clamped
  /\ IsValid(fx.arg.coordinate)
  /\ Len(dataList) >= 2
  /\ lastBarRightSideDiffBarCount # 0

\* C11: in every reachable state any two ticks of the visible tick label list
\* are at least ceil(max(ceil(totalBarSpace / 10), text width) / barSpace) data
\* indices apart, for the current totalBarSpace and barSpace
C11_TickLabelsApart ==
  \A i, j \in 1..Len(visibleRangeTimeTickList) :
    i < j => visibleRangeTimeTickList[j].dataIndex - visibleRangeTimeTickList[i].dataIndex
               >= tickBarCount(Cur)

\* The calendar fields in the order of the claim, and the weight each decides
CalendarFields == <<"YYYY", "MM", "DD", "HH", "mm">>
FieldWeights == <<TimeWeightYear, TimeWeightMonth, TimeWeightDay, TimeWeightHour,
                  TimeWeightMinute>>

\* The weight of the bar at data index i by the first field that differs from
\* the bar before it
FirstDifferenceWeight(i) ==
  IF i = 0 THEN TimeWeightSecond
  ELSE LET d == formatDateToDateTime(dateTimeFormat, dataList[i + 1].timestamp)
           p == formatDateToDateTime(dateTimeFormat, dataList[i].timestamp)
           differing == {k \in 1..Len(CalendarFields) :
                           d[CalendarFields[k]] # p[CalendarFields[k]]}
       IN IF differing = {} THEN TimeWeightSecond
          ELSE FieldWeights[CHOOSE k \in differing : \A j \in differing : k <= j]

\* C12: every bar of the window has one tick, in the bucket of the weight that
\* the first calendar field (year, month, day, hour, minute) differing from the
\* previous bar decides, Second when none differs or there is no previous bar
C12_TickWeightByFirstDifference ==
  /\ \A w \in TimeWeights : \A k \in 1..Len(timeTicks[w]) :
       LET tick == timeTicks[w][k]
       IN /\ tick.weight = w
          /\ tick.dataIndex \in 0..(Len(dataList) - 1)
          /\ tick.timestamp = dataList[tick.dataIndex + 1].timestamp
          /\ w = FirstDifferenceWeight(tick.dataIndex)
  /\ \A i \in 0..(Len(dataList) - 1) :
       Cardinality({wk \in {<<w, k>> : w \in TimeWeights, k \in 1..MaxData} :
                      /\ wk[2] <= Len(timeTicks[wk[1]])
                      /\ timeTicks[wk[1]][wk[2]].dataIndex = i}) = 1

\* A bar opens a new day of the same year and month, at another hour than the
\* bar before it, and its tick is in the Day bucket
C12_Witness ==
  \E k \in 1..Len(timeTicks[TimeWeightDay]) :
    LET i == timeTicks[TimeWeightDay][k].dataIndex
        d == formatDateToDateTime(dateTimeFormat, dataList[i + 1].timestamp)
        p == formatDateToDateTime(dateTimeFormat, dataList[i].timestamp)
    IN /\ i > 0
       /\ d.YYYY = p.YYYY /\ d.MM = p.MM /\ d.DD # p.DD /\ d.HH # p.HH

\* The id of a slot's overlay, None where the slot has none
SlotId(overlay) == IF overlay # None THEN Some(overlayObjects[overlay[1]].id) ELSE None

\* The callback an operation fires on a slot's overlay, if it has callbacks
Fired(event, overlay) ==
  IF overlay # None /\ overlayObjects[overlay[1]].callbacks
  THEN <<[event |-> event, overlay |-> overlay[1]]>>
  ELSE <<>>

OverlayIds == {overlayObjects[o].id : o \in 1..Len(overlayObjects)}

\* The enter and leave callbacks fired so far on the overlays of one id
HoverEventsOfId(id) ==
  SelectSeq(callbackLog, LAMBDA e : /\ e.event \in {"onMouseEnter", "onMouseLeave"}
                                    /\ overlayObjects[e.overlay].id = id)

\* The enter and leave callbacks fired so far on one overlay object
HoverEventsOf(o) ==
  SelectSeq(callbackLog, LAMBDA e : /\ e.event \in {"onMouseEnter", "onMouseLeave"}
                                    /\ e.overlay = o)

EnterLeaveAlternate(log) ==
  \A k \in 1..Len(log) :
    log[k].event = IF k % 2 = 1 THEN "onMouseEnter" ELSE "onMouseLeave"

C14_ClickCallbacks ==
  [][fx'.op = "setClickOverlayInfo" =>
       LET info == fx'.arg.info
           otherId == SlotId(clickOverlayInfo.overlay) # SlotId(info.overlay)
           clicked == info.overlay # None
                        /\ overlayObjects[info.overlay[1]].currentStep = "finished"
       IN fx'.callbacks =
            (IF clicked THEN Fired("onClick", info.overlay) ELSE <<>>)
              \o (IF otherId
                  THEN Fired("onDeselected", clickOverlayInfo.overlay)
                         \o Fired("onSelected", info.overlay)
                  ELSE <<>>)]_vars

\* The overlay of the click slot has been clicked again: onClick, nothing else
C14_Witness ==
  /\ fx.op = "setClickOverlayInfo"
  /\ clickOverlayInfo.overlay # None
  /\ fx.callbacks = <<[event |-> "onClick", overlay |-> clickOverlayInfo.overlay[1]]>>

\* How often an overlay is in the permanent collection of a pane
TimesIn(map, paneId, o) ==
  Cardinality({ik \in (1..Len(map)) \X (1..4) :
                 /\ map[ik[1]].paneId = paneId
                 /\ ik[2] <= Len(map[ik[1]].overlays)
                 /\ map[ik[1]].overlays[ik[2]] = o})

PaneIds == {"candle_pane", "indicator_pane"}

\* The in-progress overlay is in no permanent collection
ProgressOverlayApart ==
  progressOverlayInfo # None =>
    \A p \in PaneIds : TimesIn(overlays, p, progressOverlayInfo[1].overlay) = 0

\* progressOverlayComplete moves an overlay that is no longer drawing into the
\* collection of its pane, once, and clears the slot; it changes nothing while
\* the overlay is drawing
CompleteStep ==
  (fx'.op = "progressOverlayComplete" /\ progressOverlayInfo # None) =>
    LET o == progressOverlayInfo[1].overlay
        paneId == progressOverlayInfo[1].paneId
    IN IF overlayObjects[o].currentStep = "finished"
       THEN /\ progressOverlayInfo' = None
            /\ TimesIn(overlays', paneId, o) = 1
            /\ \A p \in PaneIds, q \in 1..Len(overlayObjects) :
                 (q # o \/ p # paneId) => TimesIn(overlays', p, q) = TimesIn(overlays, p, q)
       ELSE UNCHANGED <<progressOverlayInfo, overlays, overlayObjects>>

\* removeOverlay of the id of the in-progress overlay clears the slot and
\* leaves the permanent collections as they are
RemoveInProgressStep ==
  (/\ fx'.op = "removeOverlay"
   /\ progressOverlayInfo # None
   /\ fx'.arg.filter.id = Some(overlayObjects[progressOverlayInfo[1].overlay].id)) =>
    /\ progressOverlayInfo' = None
    /\ overlays' = overlays

\* C15: there is one slot for the overlay in progress; progressOverlayComplete
\* moves an overlay that is no longer drawing into its pane's permanent
\* collection exactly once and clears the slot, and changes nothing while it is
\* drawing; removing the in-progress overlay clears the slot and leaves the
\* permanent collections unchanged; the in-progress overlay is in no permanent
\* collection
C15_ProgressOverlay ==
  /\ []ProgressOverlayApart
  /\ [][CompleteStep]_vars
  /\ [][RemoveInProgressStep]_vars

\* The callbacks subscribed to a type now, by the history of the calls
SubscribersOf(type) == {p[2] : p \in {q \in subscribed.now : q[1] = type}}

\* C16: after any subscribeAction and unsubscribeAction calls the action map
\* holds no type without subscribers: hasAction(type) is true exactly when a
\* callback is still subscribed to the type, and an executeAction on a type
\* without subscribers invokes nothing
C16_NoTypeWithoutSubscribers ==
  /\ \A i \in 1..Len(actions) : actions[i].callbacks # <<>>
  /\ \A type \in ActionTypes :
       /\ hasAction(Cur, type) <=> SubscribersOf(type) # {}
       /\ HasAction(actions, type) <=> SubscribersOf(type) # {}
  /\ \A k \in 1..Len(fx.invoked) :
       fx.invoked[k].callback \in SubscribersOf(fx.invoked[k].type)
  /\ fx.op = "executeAction" =>
       {fx.invoked[k].callback : k \in 1..Len(fx.invoked)} = SubscribersOf(fx.arg.type)

\* The last subscriber of a type has been unsubscribed, while another type
\* still has one
C16_Witness ==
  /\ fx.op = "unsubscribeAction"
  /\ \E c \in Callbacks : <<fx.arg.type, c>> \in subscribed.ever
  /\ SubscribersOf(fx.arg.type) = {}
  /\ ~hasAction(Cur, fx.arg.type)
  /\ \E type \in ActionTypes : hasAction(Cur, type)

\* The derived state at its defaults
DerivedStateCleared ==
  /\ dataList = <<>>
  /\ visibleRange = getDefaultVisibleRange
  /\ timeTicks = EmptyTicks
  /\ visibleRangeTimeTickList = <<>>
  /\ visibleRangeDataList = <<>>
  /\ crosshair = EmptyCrosshair

\* The derived state of an empty window: no bar, no tick, no tick label, no
\* visible bar, no bar under the crosshair
DerivedStateEmpty ==
  /\ dataList = <<>>
  /\ visibleRange.from = 0 /\ visibleRange.to = 0
  /\ timeTicks = EmptyTicks
  /\ visibleRangeTimeTickList = <<>>
  /\ \A k \in 1..Len(visibleRangeDataList) : visibleRangeDataList[k].data = None
  /\ crosshair.kLineData = None

\* C17: after clear() the data window, the tick buckets, the visible tick label
\* list and the visible data list are empty, the visible range is the default
\* range and the crosshair is empty; an Init load of an empty array after it
\* leaves them so
C17_ClearResetsDerivedState ==
  /\ [](fx.op = "clear" => DerivedStateCleared)
  /\ [][(/\ fx.op = "clear"
         /\ fx'.op = "addData" /\ fx'.arg.type = "Init" /\ fx'.arg.data = <<>>)
          => DerivedStateEmpty']_vars

\* The runs started so far, and what one run has done, in order
Runs == {taskLog[i].run : i \in DOMAIN taskLog} \ {0}
RunEvents(n) ==
  LET log == SelectSeq(taskLog, LAMBDA e : e.run = n)
  IN [k \in 1..Len(log) |-> log[k].event]

\* C18: each run of a calculation task notifies Loading first; when the
\* computation has succeeded it requests a layout and notifies Ready, when it
\* has failed it notifies Error and requests no layout; no run notifies both
\* Ready and Error, and none notifies either before Loading
C18_RunNotifications ==
  \A n \in Runs :
    \/ RunEvents(n) = <<"Loading">> /\ \E i \in 1..Len(running) : running[i].run = n
    \/ RunEvents(n) = <<"Loading", "layout", "Ready">>
    \/ RunEvents(n) = <<"Loading", "Error">>

\* C19: a task that is waiting for an indicator when removeIndicator removes
\* that indicator never runs: the log holds no Loading, Ready or Error of that
\* task after the removal
C19_RemovedTaskNeverRuns ==
  \A i \in DOMAIN taskLog, j \in DOMAIN taskLog :
    (taskLog[i].event = "removed" /\ j > i /\ taskLog[j].task = taskLog[i].task)
      => taskLog[j].event \notin {"Loading", "Ready", "Error"}

\* A task was waiting when its indicator was removed; the indicator was added
\* again later and the task of that second one has run
C19_Witness ==
  \E i \in DOMAIN taskLog, j \in DOMAIN taskLog :
    /\ taskLog[i].event = "removed"
    /\ j > i
    /\ taskLog[j].event = "Ready"
    /\ taskLog[j].id = taskLog[i].id
    /\ taskLog[j].task # taskLog[i].task

\* C20: setTotalBarSpace(0) is rejected: the viewport width, the right offset,
\* the visible range and the visible data list stay as they were before the call
C20_ZeroWidthRejected ==
  [][(fx'.op = "setTotalBarSpace" /\ fx'.arg.totalSpace = 0)
       => /\ totalBarSpace' = totalBarSpace
          /\ offsetRightDistance' = offsetRightDistance
          /\ lastBarRightSideDiffBarCount' = lastBarRightSideDiffBarCount
          /\ visibleRange' = visibleRange
          /\ visibleRangeDataList' = visibleRangeDataList]_vars

\* C21: setOptions with a time zone name that is no zone leaves the formatter,
\* the tick buckets and the visible tick label list as they were (the failure
\* is logged as a warning, nothing is thrown)
C21_InvalidTimezoneKeepsFormatter ==
  [][(fx'.op = "setOptions" /\ IsValid(fx'.arg.timezone)
        /\ fx'.arg.timezone[1] \notin Zones)
       => /\ dateTimeFormat' = dateTimeFormat
          /\ timeTicks' = timeTicks
          /\ visibleRangeTimeTickList' = visibleRangeTimeTickList]_vars

\* setOptions has refused a name that is no zone while a formatter other than
\* the first one was in place and the window held bars
C21_Witness ==
  /\ fx.op = "setOptions"
  /\ fx.warned
  /\ dateTimeFormat # ZoneOffset("auto")
  /\ dataList # <<>>
  /\ visibleRangeTimeTickList # <<>>

\* The bar space a zoom call asks for, and the zoom notifications of the last call
RequestedBarSpace(space, scale) ==
  space + (scale[1] * space) \div (scale[2] * SCALE_MULTIPLIER)
ZoomEvents(events) == SelectSeq(events, LAMBDA e : e.type = "onZoom")

\* C22: zoom notifies onZoom exactly when the bar space has changed, once, with
\* the scale new bar space / previous bar space; with zooming disabled or a
\* requested bar space outside [1, 50] it notifies nothing and leaves the bar
\* space, the right offset and the visible range as they were
C22_ZoomNotification ==
  [][(steps' = steps + 1 /\ fx'.op = "zoom") =>
       /\ ZoomEvents(fx'.events)
            = IF barSpace' # barSpace
              THEN <<[type |-> "onZoom", data |-> <<barSpace', barSpace>>]>>
              ELSE <<>>
       /\ (\/ ~zoomEnabled
           \/ RequestedBarSpace(barSpace, fx'.arg.scale) < BarSpaceLimitMIN
           \/ RequestedBarSpace(barSpace, fx'.arg.scale) > BarSpaceLimitMAX)
            => /\ fx'.events = <<>>
               /\ UNCHANGED <<barSpace, lastBarRightSideDiffBarCount, visibleRange>>]_vars

\* A zoom call has changed the bar space of a chart with data and notified it
C22_Witness ==
  /\ fx.op = "zoom"
  /\ ZoomEvents(fx.events) # <<>>
  /\ dataList # <<>>

\* A zoom call was refused while zooming was disabled, on a chart with data
C22_WitnessRefused ==
  /\ fx.op = "zoom"
  /\ ~zoomEnabled
  /\ dataList # <<>>

\* The right offset scroll(d) asks for, held to the limits of the state after the call
ScrollTarget(start, distance, space) == start - PerBar(distance, space)
HeldToLimits(offset, s) ==
  Max(Min(offset, maxRightOffsetBarCount(s)), minRightOffsetBarCount(s))
ScrollEvents(events) == SelectSeq(events, LAMBDA e : e.type = "onScroll")

\* C23: scroll(d) sets the right offset to the offset startScroll captured minus
\* d / barSpace, held to the limits; it notifies onScroll with the distance
\* round((offset before - offset after) * barSpace), and nothing when that is 0;
\* with scrolling disabled it changes nothing and notifies nothing
C23_ScrollFromStart ==
  [][(steps' = steps + 1 /\ fx'.op = "scroll") =>
       IF scrollEnabled
       THEN LET realDistance == Round(lastBarRightSideDiffBarCount * barSpace
                                        - lastBarRightSideDiffBarCount' * barSpace, Unit)
            IN /\ lastBarRightSideDiffBarCount'
                    = HeldToLimits(ScrollTarget(startLastBarRightSideDiffBarCount,
                                                fx'.arg.distance, barSpace), Cur')
               /\ ScrollEvents(fx'.events)
                    = IF realDistance # 0
                      THEN <<[type |-> "onScroll", data |-> realDistance]>>
                      ELSE <<>>
       ELSE /\ fx'.events = <<>>
            /\ UNCHANGED <<lastBarRightSideDiffBarCount, startLastBarRightSideDiffBarCount,
                           visibleRange, visibleRangeDataList, crosshair, barSpace,
                           dataList, loading, timeTicks, visibleRangeTimeTickList>>]_vars

\* scroll(d) has moved the viewport of a chart with data and notified the distance
C23_Witness ==
  /\ fx.op = "scroll"
  /\ ScrollEvents(fx.events) # <<>>
  /\ dataList # <<>>

\* scroll(d) was refused while scrolling was disabled, on a chart with data
C23_WitnessRefused ==
  /\ fx.op = "scroll"
  /\ ~scrollEnabled
  /\ dataList # <<>>

\* The limits of the right offset in the current state (lines 615-634)
MinRightOffset == minRightOffsetBarCount(Cur)
MaxRightOffset == maxRightOffsetBarCount(Cur)

\* C24 as stated: after every re-derivation of the viewport the right offset
\* lies in [minRightOffset, maxRightOffset]
C24_OffsetWithinLimits ==
  fx.adjusted =>
    /\ MinRightOffset <= lastBarRightSideDiffBarCount
    /\ lastBarRightSideDiffBarCount <= MaxRightOffset

\* C24, amended: after every re-derivation of the viewport the right offset is
\* at least minRightOffset; it is at most maxRightOffset when the two limits do
\* not cross, and it is minRightOffset when they do
C24_OffsetWithinUncrossedLimits ==
  fx.adjusted =>
    /\ MinRightOffset <= lastBarRightSideDiffBarCount
    /\ MinRightOffset <= MaxRightOffset => lastBarRightSideDiffBarCount <= MaxRightOffset
    /\ MinRightOffset > MaxRightOffset => lastBarRightSideDiffBarCount = MinRightOffset

\* A re-derivation has brought the right offset back to one of two limits that
\* do not cross, in pixel-distance mode, on a chart with data
C24_Witness ==
  /\ fx.adjusted
  /\ fx.clamped
  /\ dataList # <<>>
  /\ scrollLimitRole = "Distance"
  /\ MinRightOffset < MaxRightOffset

DistanceSetters == {"setMaxOffsetLeftDistance", "setMaxOffsetRightDistance"}
BarCountSetters == {"setLeftMinVisibleBarCount", "setRightMinVisibleBarCount"}

\* Other values for the limits of the mode that is not in force
OtherLimits == {[left |-> l, right |-> r] : l \in {0, 1, 60}, r \in {0, 1, 60}}
WithOtherLimits(s, limits) ==
  IF s.scrollLimitRole = "Distance"
  THEN [s EXCEPT !.minVisibleBarCount = limits]
  ELSE [s EXCEPT !.maxOffsetDistance = limits]

\* The right offsets a method may hand to the clamp
SomeOffsets == {-2 * Unit, 0, lastBarRightSideDiffBarCount, 2 * Unit}

\* C25: the scroll-limit mode is the one of the limit setter called last, the
\* bar-count mode before any is called; the clamp gives every offset the value
\* it would give it with any other limits stored for the mode not in force
C25_LastSetterDecidesMode ==
  /\ [][/\ (steps' = steps + 1 /\ fx'.op \in DistanceSetters)
             => scrollLimitRole' = "Distance"
        /\ (steps' = steps + 1 /\ fx'.op \in BarCountSetters)
             => scrollLimitRole' = "BarCount"
        /\ ~(steps' = steps + 1 /\ fx'.op \in DistanceSetters \cup BarCountSetters)
             => scrollLimitRole' = scrollLimitRole]_vars
  /\ [](\A limits \in OtherLimits, offset \in SomeOffsets :
          clampRightOffset(WithOtherLimits(
              [Cur EXCEPT !.lastBarRightSideDiffBarCount = offset], limits))
            = clampRightOffset([Cur EXCEPT !.lastBarRightSideDiffBarCount = offset]))
  /\ [](steps = 0 => scrollLimitRole = "BarCount")

\* A bar-count setter was called after a distance setter, on a chart with data
C25_Witness ==
  /\ fx.op \in BarCountSetters
  /\ scrollLimitRole = "BarCount"
  /\ maxOffsetDistance # [left |-> 50, right |-> 50]
  /\ dataList # <<>>

\* A single bar newer than the last bar of the window is given to addData
AppendStep ==
  /\ SingleBarStep
  /\ fx'.success
  /\ fx'.dataLengthChange = 1

\* C26 as stated: on the append of a single bar a negative right offset is moved
\* by exactly -1 bar, and the visible range [from, to) is over the same data
\* indices as before; a right offset of 0 or more is not moved
C26_AppendKeepsViewport ==
  [][AppendStep =>
       IF lastBarRightSideDiffBarCount < 0
       THEN /\ lastBarRightSideDiffBarCount' = lastBarRightSideDiffBarCount - Unit
            /\ visibleRange'.from = visibleRange.from
            /\ visibleRange'.to = visibleRange.to
       ELSE lastBarRightSideDiffBarCount' = lastBarRightSideDiffBarCount]_vars

\* What the re-derivation after the append makes of a right offset
HeldAfterAppend(offset) ==
  HeldToLimits(offset, [Cur' EXCEPT !.lastBarRightSideDiffBarCount = offset])

\* C26, amended: the append moves a negative right offset by -1 bar and leaves
\* one of 0 or more alone, and the re-derivation that follows holds the result
\* to the scroll limits of the longer window; where a negative offset ends
\* exactly 1 bar lower, the visible range [from, to) is over the same indices
C26_AppendShiftsThenClamps ==
  [][AppendStep =>
       IF lastBarRightSideDiffBarCount < 0
       THEN /\ lastBarRightSideDiffBarCount'
                 = HeldAfterAppend(lastBarRightSideDiffBarCount - Unit)
            /\ lastBarRightSideDiffBarCount' = lastBarRightSideDiffBarCount - Unit
                 => /\ visibleRange'.from = visibleRange.from
                    /\ visibleRange'.to = visibleRange.to
       ELSE lastBarRightSideDiffBarCount' = HeldAfterAppend(lastBarRightSideDiffBarCount)]_vars

\* A bar was appended while the right offset was negative: the offset is more
\* than one bar to the left of the last bar, and the range ends before that bar
C26_Witness ==
  /\ fx.op = "addData"
  /\ ~fx.arg.isArray
  /\ fx.dataLengthChange = 1
  /\ lastBarRightSideDiffBarCount < -Unit
  /\ visibleRange.to < Len(dataList)

\* An Init load
InitStep ==
  /\ steps' = steps + 1
  /\ fx'.op = "addData"
  /\ fx'.arg.isArray
  /\ fx'.arg.type = "Init"

\* The offset right distance an Init load sets again: line 748 holds it to the
\* right limit in pixel-distance mode
ConfiguredOffsetRightDistance ==
  IF scrollLimitRole = "Distance"
  THEN Min(maxOffsetDistance.right, offsetRightDistance) ELSE offsetRightDistance

\* C27 as stated: an Init load makes the given array the data window, builds the
\* tick buckets of that array from nothing, and sets the right offset to the
\* configured offsetRightDistance / barSpace, held to the scroll limits,
\* wherever the viewport was scrolled to
C27_InitLoadResets ==
  [][InitStep =>
       /\ dataList' = fx'.arg.data
       /\ timeTicks' = ClassifyFrom(dateTimeFormat, EmptyTicks, fx'.arg.data, 1, 0, None)
       /\ lastBarRightSideDiffBarCount'
            = HeldToLimits(PerBar(offsetRightDistance, barSpace), Cur')]_vars

\* C27, amended: the same, the offsetRightDistance being first held to
\* maxOffsetDistance.right, and stored so, when the pixel-distance mode is in force
C27_InitLoadResetsToHeldDistance ==
  [][InitStep =>
       /\ dataList' = fx'.arg.data
       /\ timeTicks' = ClassifyFrom(dateTimeFormat, EmptyTicks, fx'.arg.data, 1, 0, None)
       /\ offsetRightDistance' = ConfiguredOffsetRightDistance
       /\ lastBarRightSideDiffBarCount'
            = HeldToLimits(PerBar(ConfiguredOffsetRightDistance, barSpace), Cur')]_vars

\* An Init load of bars in pixel-distance mode has held the offset right
\* distance to the right limit
C27_Witness ==
  /\ fx.op = "addData"
  /\ fx.arg.isArray
  /\ fx.arg.type = "Init"
  /\ dataList # <<>>
  /\ scrollLimitRole = "Distance"
  /\ offsetRightDistance = maxOffsetDistance.right
  /\ offsetRightDistance # DEFAULT_OFFSET_RIGHT_DISTANCE

\* A Forward or Backward load
PageStep(type) ==
  /\ steps' = steps + 1
  /\ fx'.op = "addData"
  /\ fx'.arg.isArray
  /\ fx'.arg.type = type

IsPrefix(a, b) == Len(a) <= Len(b) /\ a = SubSeq(b, 1, Len(a))

\* C28: a Forward load puts its page before the window and takes the
\* forward-more flag, and only that flag, from the hint; a Backward load puts
\* its page after the window and takes the backward-more flag, and only that
\* one, from the hint, and leaves every bar and every tick of the window at its
\* data index
C28_PagesExtendTheWindow ==
  [][/\ PageStep("Forward") =>
          /\ dataList' = fx'.arg.data \o dataList
          /\ loadDataMore'.forward = fx'.arg.more.forward
          /\ loadDataMore'.backward = loadDataMore.backward
     /\ PageStep("Backward") =>
          /\ dataList' = dataList \o fx'.arg.data
          /\ loadDataMore'.backward = fx'.arg.more.backward
          /\ loadDataMore'.forward = loadDataMore.forward
          /\ \A w \in TimeWeights : IsPrefix(timeTicks[w], timeTicks'[w])
          /\ \A w \in TimeWeights : \A k \in 1..Len(timeTicks'[w]) :
               k > Len(timeTicks[w]) => timeTicks'[w][k].dataIndex >= Len(dataList)]_vars

\* A Backward load has put a page of bars after a window of bars, and the
\* forward-more flag is not the one of its hint
C28_Witness ==
  /\ fx.op = "addData"
  /\ fx.arg.isArray
  /\ fx.arg.type = "Backward"
  /\ fx.arg.data # <<>>
  /\ Len(dataList) > Len(fx.arg.data)
  /\ loadDataMore.forward # fx.arg.more.forward

\* A Forward load has put a page of bars before a window of bars, and the
\* backward-more flag is not the one of its hint
C28_WitnessForward ==
  /\ fx.op = "addData"
  /\ fx.arg.isArray
  /\ fx.arg.type = "Forward"
  /\ fx.arg.data # <<>>
  /\ Len(dataList) > Len(fx.arg.data)
  /\ loadDataMore.backward # fx.arg.more.backward

\* The overlays of the per-pane collections
PaneOverlays ==
  UNION {{overlays[i].overlays[k] : k \in 1..Len(overlays[i].overlays)} :
           i \in 1..Len(overlays)}

\* A call of addData that has changed the length of the window
LengthChangeStep ==
  /\ steps' = steps + 1
  /\ fx'.op = "addData"
  /\ fx'.success
  /\ fx'.dataLengthChange > 0

TimestampAt(list, i) ==
  IF 0 <= i /\ i < Len(list) THEN Some(list[i + 1].timestamp) ELSE None

\* C29: when addData has changed the length of the window, every point of an
\* overlay of the panes that had a data index and no timestamp has, after a
\* Forward load of k bars, its index raised by k and the timestamp of the bar
\* now at that index, which is the bar that was at its index before; after any
\* other load or an append it has its index as before and the timestamp of the
\* bar at that index; every other point is as before
C29_PointsFollowTheirBars ==
  [][LengthChangeStep =>
       \A o \in PaneOverlays : \A k \in 1..Len(overlayObjects[o].points) :
         LET point == overlayObjects[o].points[k]
             after == overlayObjects'[o].points[k]
         IN IF ~IsValid(point.timestamp) /\ IsValid(point.dataIndex)
            THEN IF fx'.arg.type = "Forward"
                 THEN /\ after.dataIndex = Some(point.dataIndex[1] + fx'.dataLengthChange)
                      /\ after.timestamp = TimestampAt(dataList', after.dataIndex[1])
                      /\ DataAt(dataList', after.dataIndex[1])
                           = DataAt(dataList, point.dataIndex[1])
                 ELSE /\ after.dataIndex = point.dataIndex
                      /\ after.timestamp = TimestampAt(dataList', point.dataIndex[1])
            ELSE after = point]_vars

\* A Forward load of bars has moved a point of an overlay of the panes to the
\* new index of its bar and given it that bar's timestamp
C29_Witness ==
  /\ fx.op = "addData"
  /\ fx.arg.isArray
  /\ fx.arg.type = "Forward"
  /\ fx.dataLengthChange > 0
  /\ Len(dataList) >= 2 + fx.dataLengthChange
  /\ \E o \in PaneOverlays :
       /\ overlayObjects[o].id = "b"
       /\ overlayObjects[o].points[1].dataIndex = Some(1 + fx.dataLengthChange)
       /\ overlayObjects[o].points[1].timestamp
            = Some(dataList[2 + fx.dataLengthChange].timestamp)

----------------------------------------------------------------------------
\* The (pane, indicator) pairs of the indicator map, pane by pane in the
\* map's order
RECURSIVE IndicatorIds(_)
IndicatorIds(map) ==
  IF map = <<>> THEN <<>>
  ELSE [i \in 1..Len(Head(map).names) |->
          generateTaskId(Head(map).paneId, Head(map).names[i])]
       \o IndicatorIds(Tail(map))

\* C30: a successful call of addData that has made the window longer (an Init
\* load of bars, a Forward or Backward page of bars, the append of a bar)
\* submits one calculation task for each indicator of each pane and no other:
\* the submitted tasks are, in order, those of the indicator map's pairs; each
\* carries the type the call was made with; and each was submitted when the
\* visible range had been re-derived.
C30_LoadsResubmitIndicators ==
  [][LengthChangeStep =>
       /\ fx'.adjusted
       /\ Len(fx'.submitted) = Len(IndicatorIds(indicators'))
       /\ \A i \in 1..Len(fx'.submitted) :
            /\ fx'.submitted[i].id = IndicatorIds(indicators')[i]
            /\ fx'.submitted[i].type = fx'.arg.type
            /\ fx'.afterAdjust[i]
       /\ \A i, j \in 1..Len(fx'.submitted) :
            fx'.submitted[i].id = fx'.submitted[j].id => i = j
       /\ indicators' = indicators]_vars

\* A Backward page of bars on a chart with an indicator in each of two panes
\* has submitted the two tasks
C30_Witness ==
  /\ fx.op = "addData"
  /\ fx.arg.isArray
  /\ fx.arg.type = "Backward"
  /\ fx.success
  /\ fx.dataLengthChange > 0
  /\ Len(indicators) = 2
  /\ Len(fx.submitted) = 2
  /\ fx.submitted[1].id[1] # fx.submitted[2].id[1]

----------------------------------------------------------------------------
\* C31: after every run of _adjustVisibleRange the clamped window is the
\* logical window cut to the data: to = min(realTo, dataCount) and
\* from = max(realFrom, 0), so realFrom <= from and to <= realTo; and the
\* visible data list has one entry for each index of realFrom..realTo - 1, in
\* ascending order.
C31_WindowIsCutOfRealWindow ==
  [][(steps' = steps + 1 /\ fx'.adjusted) =>
       /\ visibleRange'.to = Min(visibleRange'.realTo, Len(dataList'))
       /\ visibleRange'.from = Max(visibleRange'.realFrom, 0)
       /\ visibleRange'.realFrom <= visibleRange'.from
       /\ visibleRange'.to <= visibleRange'.realTo
       /\ Len(visibleRangeDataList')
            = Max(0, visibleRange'.realTo - visibleRange'.realFrom)
       /\ \A k \in 1..Len(visibleRangeDataList') :
            visibleRangeDataList'[k].dataIndex = visibleRange'.realFrom + k - 1]_vars

\* C32: an Init load given the hints {forward: f, backward: b} leaves the
\* forward-more flag equal to f and the backward-more flag equal to b.
C32_InitLoadStoresBothHints ==
  [][InitStep =>
       /\ loadDataMore'.forward = fx'.arg.more.forward
       /\ loadDataMore'.backward = fx'.arg.more.backward]_vars

\* The indicators of a pane's entry that have the name
NamedIn(names, name) == SelectSeq(names, LAMBDA n : n = name)

HasNamed(map, name) ==
  \E i \in 1..Len(map) : NamedIn(map[i].names, name) # <<>>

\* C33: getIndicatorsByFilter with a name and no pane returns, for every pane
\* of the indicator map, that pane's indicators of the name; and
\* removeIndicator with such a filter leaves no indicator of the name in any
\* pane and returns true exactly when there was one.
C33_NameFilterCoversEveryPane ==
  /\ [](\A name \in StackedIndicatorNames :
          getIndicatorsByFilter(Cur, [paneId |-> None, name |-> Some(name)])
            = [i \in 1..Len(indicators) |->
                 [paneId |-> indicators[i].paneId,
                  names |-> NamedIn(indicators[i].names, name)]])
  /\ [][(/\ steps' = steps + 1
         /\ fx'.op = "removeIndicator"
         /\ fx'.arg.filter.paneId = None
         /\ fx'.arg.filter.name # None)
          => /\ ~HasNamed(indicators', fx'.arg.filter.name[1])
             /\ fx'.removed = HasNamed(indicators, fx'.arg.filter.name[1])]_vars

\* An overlay matches a filter [id, groupId, paneId, name]: the id decides if
\* one is given, else the group and the name, and the pane if one is given
MatchesFilter(o, filter) ==
  /\ IF IsValid(filter.id) THEN overlayObjects[o].id = filter.id[1]
     ELSE /\ (IsValid(filter.groupId) => overlayObjects[o].groupId = filter.groupId[1])
          /\ (IsValid(filter.name) => overlayObjects[o].name = filter.name[1])
  /\ (IsValid(filter.paneId) => overlayObjects[o].paneId = filter.paneId[1])

\* C34: removeOverlay(filter) removes, and calls onRemoved on, matching
\* overlays only: an overlay of the Store that does not match the filter, the
\* one in progress included, is still in the Store after the call and gets no
\* onRemoved.
C34_RemoveOnlyMatching ==
  [][(steps' = steps + 1 /\ fx'.op = "removeOverlay") =>
       \A o \in StoredOverlays :
         ~MatchesFilter(o, fx'.arg.filter) =>
           /\ o \in StoredOverlays'
           /\ \A i \in 1..Len(fx'.callbacks) :
                ~(fx'.callbacks[i].event = "onRemoved" /\ fx'.callbacks[i].overlay = o)]_vars

\* The ticks of all buckets
AllTicks ==
  UNION {{[weight |-> w, k |-> k] : k \in 1..Len(timeTicks[w])} : w \in TimeWeights}

\* C35: after any Init, Forward and Backward loads, single-bar upserts and
\* clear, the tick buckets partition the data indices: every index of the
\* window is the index of exactly one tick of one bucket, no tick has an index
\* outside the window, every tick has the timestamp of the bar at its index,
\* and every bucket is in ascending order of index.
C35_TicksPartitionTheWindow ==
  /\ \A i \in 0..(Len(dataList) - 1) :
       Cardinality({t \in AllTicks : timeTicks[t.weight][t.k].dataIndex = i}) = 1
  /\ \A t \in AllTicks :
       LET tick == timeTicks[t.weight][t.k]
       IN /\ 0 <= tick.dataIndex
          /\ tick.dataIndex < Len(dataList)
          /\ tick.timestamp = dataList[tick.dataIndex + 1].timestamp
  /\ \A w \in TimeWeights :
       \A k \in 1..(Len(timeTicks[w]) - 1) :
         timeTicks[w][k].dataIndex < timeTicks[w][k + 1].dataIndex

\* A Forward page has been put before the bars of a window whose ticks were in
\* two buckets: all indices were classified again
C35_Witness ==
  /\ fx.op = "addData"
  /\ fx.arg.type = "Forward"
  /\ fx.dataLengthChange > 0
  /\ Len(dataList) > fx.dataLengthChange
  /\ Cardinality({w \in TimeWeights : timeTicks[w] # <<>>}) >= 2

\* C36: an overlay referenced by the hover or the click slot is held by the
\* Store, in a pane's collection or as the overlay in progress; and no
\* onMouseEnter, onMouseLeave, onSelected or onDeselected is called on an
\* overlay after its onRemoved.
C36_SlotsHoldStoredOverlays ==
  /\ hoverOverlayInfo.overlay # None => hoverOverlayInfo.overlay[1] \in StoredOverlays
  /\ clickOverlayInfo.overlay # None => clickOverlayInfo.overlay[1] \in StoredOverlays
  /\ \A i, j \in 1..Len(callbackLog) :
       (/\ i < j
        /\ callbackLog[i].event = "onRemoved"
        /\ callbackLog[j].overlay = callbackLog[i].overlay)
         => callbackLog[j].event
              \notin {"onMouseEnter", "onMouseLeave", "onSelected", "onDeselected"}

\* The names of the indicators of a pane, by the indicator map
NamesOf(map, paneId) ==
  IF \E i \in 1..Len(map) : map[i].paneId = paneId
  THEN (CHOOSE e \in {map[i] : i \in 1..Len(map)} : e.paneId = paneId).names
  ELSE <<>>

AddIndicatorStep == steps' = steps + 1 /\ fx'.op = "addIndicator"

\* C37: after any addIndicator and removeIndicator calls no pane holds two
\* indicators of one name, and the indicator map holds no pane with an empty
\* list and no pane twice, so hasIndicators(paneId) is true exactly when the
\* pane has an indicator; addIndicator returns false exactly when the pane holds
\* the name already, and then changes neither the indicators nor the tasks;
\* addIndicator with isStack false leaves the pane holding the new indicator
\* only.
C37_IndicatorMapWellFormed ==
  /\ [](/\ \A i \in 1..Len(indicators) :
             /\ indicators[i].names # <<>>
             /\ \A k, l \in 1..Len(indicators[i].names) :
                  indicators[i].names[k] = indicators[i].names[l] => k = l
             /\ \A j \in 1..Len(indicators) :
                  indicators[i].paneId = indicators[j].paneId => i = j
        /\ \A paneId \in IndicatorPanes :
             hasIndicators(Cur, paneId) <=> getIndicatorsByPaneId(Cur, paneId) # <<>>)
  /\ [][AddIndicatorStep =>
          LET held == \E k \in 1..Len(NamesOf(indicators, fx'.arg.paneId)) :
                        NamesOf(indicators, fx'.arg.paneId)[k] = fx'.arg.name
          IN /\ fx'.added = ~held
             /\ held => (indicators' = indicators /\ tasks' = tasks /\ fx'.submitted = <<>>)
             /\ (~held /\ ~fx'.arg.isStack)
                  => NamesOf(indicators', fx'.arg.paneId) = <<fx'.arg.name>>]_vars

\* addIndicator with isStack false has replaced the indicator of a pane
C37_Witness ==
  /\ fx.op = "addIndicator"
  /\ ~fx.arg.isStack
  /\ fx.added
  /\ fx.removed
  /\ NamesOf(indicators, fx.arg.paneId) = <<fx.arg.name>>

\* addIndicator has refused a name its pane holds
C37_WitnessRefused ==
  /\ fx.op = "addIndicator"
  /\ ~fx.added
  /\ \E k \in 1..Len(NamesOf(indicators, fx.arg.paneId)) :
       NamesOf(indicators, fx.arg.paneId)[k] = fx.arg.name

\* C38: after setOptions has installed the formatter of a new, valid time
\* zone, the tick buckets are those of a classification of the window with
\* the new formatter: every tick's weight and dateTime are the new zone's.
C38_TicksOfTheNewZone ==
  [][(/\ steps' = steps + 1
      /\ fx'.op = "setOptions"
      /\ IsValid(fx'.arg.timezone)
      /\ fx'.arg.timezone[1] \in Zones
      /\ fx'.arg.timezone[1] # timezone)
       => /\ dateTimeFormat' = DateTimeFormatOf(fx'.arg.timezone[1])[1]
          /\ timeTicks' = ClassifyFrom(dateTimeFormat', EmptyTicks, dataList', 1, 0, None)]_vars

AnswerStep ==
  /\ steps' = steps + 1
  /\ fx'.op = "addData"
  /\ fx'.arg.via = "callback"

ArrayLoadStep ==
  /\ steps' = steps + 1
  /\ fx'.op = "addData"
  /\ fx'.arg.isArray

\* C40: pagination settles.  Every call of a request's callback with an array,
\* an empty one too, clears the loading flag: after the call the flag is set
\* only if the call has issued a new request; a callback with an empty page
\* issues no request, so it leaves the flag cleared; no request is issued
\* while the flag is set, and the flag is set from the construction on and
\* after clear(), until an array is loaded; and with a host that answers every
\* request, a waiting request leads to a state with the flag cleared.
C40_PaginationSettles ==
  /\ [][AnswerStep => (loading' = (fx'.request # "None"))]_vars
  /\ [][(AnswerStep /\ fx'.arg.data = <<>>)
          => (fx'.request = "None" /\ ~loading' /\ Len(requests') = Len(requests) - 1)]_vars
  /\ [][(steps' = steps + 1 /\ fx'.request # "None") => (~loading \/ ArrayLoadStep)]_vars
  /\ [][(steps' = steps + 1 /\ loading /\ ~loading') => ArrayLoadStep]_vars
  /\ []((steps = 0 \/ fx.op = "clear") => loading)
  /\ (requests # <<>>) ~> ~loading

\* The host has answered the one waiting request with an empty page: no
\* request waits and the loading flag is cleared
C40_Witness ==
  /\ fx.op = "addData"
  /\ fx.arg.via = "callback"
  /\ fx.arg.data = <<>>
  /\ requests = <<>>
  /\ ~loading
  /\ loadMoreDataCallback

====
